---- MODULE Spec2Model ----
(***************************************************************************)
(* Tab Manager new-tab page (lipanpan-hub/wxtest).                         *)
(*                                                                         *)
(* The model has three layers, as the source has:                          *)
(*   - the browser's bookmark store (tree, nextId) and local key-value     *)
(*     storage (uiStates, sidebarState), which outlive a page;             *)
(*   - the adapter of entrypoints/newtab/storage.ts (operators over the    *)
(*     stores, plus the module-level cache rootFolderId);                  *)
(*   - the view-model of entrypoints/newtab/App.vue (the reactive refs and *)
(*     one action per handler).                                            *)
(*                                                                         *)
(* Conventions.  JavaScript's null, undefined and '' for an id are Null.   *)
(* Array indices keep their JavaScript values (0-based, -1 for "not        *)
(* found"); At/SpliceOut/SpliceIn convert.  A text (a name, a title) is a  *)
(* sequence of characters, a url is a sequence whose first element is its  *)
(* scheme prefix; a folder node has the empty url.  In the specifications  *)
(* of this module a handler runs to completion before the next one starts  *)
(* (the awaited browser calls are part of the step); whether an awaited    *)
(* bookmark call resolves or rejects is chosen by the step.                *)
(***************************************************************************)
EXTENDS Integers, Sequences, FiniteSets, TLC

VARIABLES
  \* browser stores
  tree,            \* bookmark store: folder id -> sequence of child nodes
  nextId,          \* next id the bookmark store hands out
  uiStates,        \* storage.local[tabmanager_collection_ui_states]
  sidebarState,    \* storage.local sidebar state record, or NoState
  \* storage.ts module state
  rootFolderId,
  \* App.vue refs
  groups, collections, selectedGroupId, isLoading,
  showOpenTabs, showGroups,
  watchQueued,     \* the watcher's job is queued and has not run yet
  pendingMove,     \* the tab drop waiting at its await moveTab, or None
  pendingCalls,    \* the handlers waiting at an awaited adapter call
  mountStep,       \* the await onMounted stands at; "done" or "caught" after
  editingCollectionId, editingGroupId, editingTabId, editingName,
  draggedTab, draggedOpenTab, dragOverCollectionId,
  draggedCollection, dragOverCollectionForSort,
  dragOverTabId, draggedGroup, dragOverGroupId,
  \* observation of the last handler run
  lastHandler,     \* its name, and the url of the open tab it was handed
  lastCalls,       \* adapter calls it issued, in order
  alerts           \* number of alert() dialogs it showed

storeVars  == <<tree, nextId, uiStates, sidebarState>>
mirrorVars == <<groups, collections, selectedGroupId>>
paneVars   == <<showOpenTabs, showGroups, watchQueued, pendingMove, pendingCalls,
                mountStep>>
editVars   == <<editingCollectionId, editingGroupId, editingTabId, editingName>>
dragVars   == <<draggedTab, draggedOpenTab, dragOverCollectionId,
                draggedCollection, dragOverCollectionForSort,
                dragOverTabId, draggedGroup, dragOverGroupId>>
vars == <<storeVars, rootFolderId, mirrorVars, isLoading, paneVars,
          editVars, dragVars, lastHandler, lastCalls, alerts>>

----------------------------------------------------------------------------
(* Bounds of the model *)

MaxNodes == 5          \* bookmark nodes the store creates in a run of Spec
MaxGroups == 2         \* groups in the mirror in Spec
MaxCollections == 3    \* collections in the mirror in Spec
MaxOrderNodes == 6     \* the same in SpecOrder
MaxTabs == 2           \* tabs the store holds in SpecTabs and SpecSave
MaxWindowTabs == 2     \* tabs of the current window in SpecSave
MaxSeedGroups == 3     \* group folders of a seeded tree in SpecGroups
MaxSavedOrder == 2     \* largest order value drawn in SpecUIState
MaxPageChanges == 1    \* distance from the seeded page at which SpecPage changes it
MaxRootNodes == 3      \* nodes created in SpecRoot

----------------------------------------------------------------------------
(* Values *)

Null == 0
None == [none |-> TRUE]      \* null, for the refs that hold an object
NoUrl == <<>>
NoState == [leftCollapsed |-> FALSE, rightCollapsed |-> FALSE,
            selectedGroupId |-> Null, present |-> FALSE]
OtherBookmarksId == 2
ROOT_FOLDER_NAME == <<"TabManager">>
DefaultUIState == [expanded |-> FALSE, order |-> 0]
Ran(name, url) == [name |-> name, url |-> url, tab |-> None]

Range(s) == {s[i] : i \in DOMAIN s}

Min(S) == CHOOSE x \in S : \A y \in S : x <= y

\* Array.prototype.findIndex / find / some
FindIndex(s, P(_)) ==
  IF \E i \in DOMAIN s : P(s[i])
  THEN Min({i \in DOMAIN s : P(s[i])}) - 1
  ELSE -1

Some(s, P(_)) == \E i \in DOMAIN s : P(s[i])

\* s[i] for a JavaScript index i
At(s, i) == s[i + 1]

\* the array left as it is
SpliceOutNothing(s, i) == s

\* s.splice(i, 1): the array without its element at index i
SpliceOut(s, i) ==
  IF i < 0 \/ i >= Len(s) THEN s
  ELSE SubSeq(s, 1, i) \o SubSeq(s, i + 2, Len(s))

\* s.push(x), whatever the index
SpliceInAtEnd(s, i, x) == Append(s, x)

\* s.splice(i, 0, x): x inserted at index i (a start beyond the end appends)
SpliceIn(s, i, x) ==
  LET k == IF i > Len(s) THEN Len(s) ELSE i
  IN  SubSeq(s, 1, k) \o <<x>> \o SubSeq(s, k + 1, Len(s))

\* String.prototype.trim
RECURSIVE TrimLeft(_)
TrimLeft(s) ==
  IF s # <<>> /\ Head(s) = " " THEN TrimLeft(Tail(s)) ELSE s

RECURSIVE TrimRight(_)
TrimRight(s) ==
  IF s # <<>> /\ s[Len(s)] = " " THEN TrimRight(SubSeq(s, 1, Len(s) - 1)) ELSE s

\* no trimming at all
TrimNothing(s) == s

Trim(s) == TrimRight(TrimLeft(s))

----------------------------------------------------------------------------
(* browser.bookmarks, over a tree t: folder id -> children *)

Node(id, title, url) == [id |-> id, title |-> title, url |-> url]

IsFolder(n) == n.url = NoUrl

BmNodes(t) == UNION {Range(t[f]) : f \in DOMAIN t}

BmExists(t, id) == id \in DOMAIN t \/ \E n \in BmNodes(t) : n.id = id

BmNode(t, id) == CHOOSE n \in BmNodes(t) : n.id = id

BmParent(t, id) == CHOOSE f \in DOMAIN t : \E n \in Range(t[f]) : n.id = id

\* bookmarks.create({parentId, title, url?}) with the fresh id nid
BmCreate(t, nid, parentId, title, url) ==
  [f \in DOMAIN t \cup (IF url = NoUrl THEN {nid} ELSE {}) |->
     IF f = parentId THEN Append(t[f], Node(nid, title, url))
     ELSE IF f = nid THEN <<>>
     ELSE t[f]]

\* the folders of the subtree rooted at folder id, id included
RECURSIVE BmSubFolders(_, _)
BmSubFolders(t, id) ==
  IF id \notin DOMAIN t THEN {}
  ELSE {id} \cup UNION {BmSubFolders(t, n.id) : n \in {m \in Range(t[id]) : IsFolder(m)}}

\* bookmarks.remove(id) (a bookmark) and bookmarks.removeTree(id) (a folder)
BmRemoveTree(t, id) ==
  LET gone == BmSubFolders(t, id)
  IN  [f \in DOMAIN t \ gone |-> SelectSeq(t[f], LAMBDA n : n.id # id)]

\* bookmarks.update(id, {title})
BmUpdate(t, id, title) ==
  [f \in DOMAIN t |->
     [i \in DOMAIN t[f] |->
        IF t[f][i].id = id THEN [t[f][i] EXCEPT !.title = title] ELSE t[f][i]]]

\* bookmarks.move(id, {parentId, index?}): the node leaves its parent and
\* enters parentId at index (at the end when index is absent, -1 here)
BmMove(t, id, parentId, index) ==
  LET n == BmNode(t, id)
      without == [f \in DOMAIN t |-> SelectSeq(t[f], LAMBDA m : m.id # id)]
  IN  [without EXCEPT ![parentId] =
         IF index < 0 THEN Append(@, n) ELSE SpliceIn(@, index, n)]

\* The source passes index and leaves its reading to the browser: counted
\* among the siblings after the node has left (BmMove), or among the
\* siblings before it leaves, which for a move towards the end of its own
\* parent is one place earlier.  Both outcomes are possible.
BmMoveOutcomes(t, id, parentId, index) ==
  LET old == FindIndex(t[parentId], LAMBDA m : m.id = id)
  IN  {BmMove(t, id, parentId, index)} \cup
      (IF old > -1 /\ index > old
       THEN {BmMove(t, id, parentId, index - 1)} ELSE {})

\* bookmarks.search({title}): the folders with that title
BmSearchFolders(t, title) == {n \in BmNodes(t) : n.title = title /\ IsFolder(n)}

----------------------------------------------------------------------------
(* storage.ts: the bookmark-tree adapter *)

\* the cached id returned without the look at the store
GetOrCreateRootFolderTrusting(cache, t, nid) ==
  IF cache # Null
  THEN {[id |-> cache, tree |-> t, nextId |-> nid]}
  ELSE LET found == BmSearchFolders(t, ROOT_FOLDER_NAME)
       IN  IF found # {}
           THEN {[id |-> n.id, tree |-> t, nextId |-> nid] : n \in found}
           ELSE {[id |-> nid,
                  tree |-> BmCreate(t, nid, OtherBookmarksId, ROOT_FOLDER_NAME, NoUrl),
                  nextId |-> nid + 1]}

\* getOrCreateRootFolder, called with the cache value cache: the possible
\* results [id, tree, nextId]; the cache holds id afterwards.  More than one
\* result only when several folders carry the root title (search order).
GetOrCreateRootFolder(cache, t, nid) ==
  IF cache # Null /\ BmExists(t, cache)
  THEN {[id |-> cache, tree |-> t, nextId |-> nid]}
  ELSE LET found == BmSearchFolders(t, ROOT_FOLDER_NAME)
       IN  IF found # {}
           THEN {[id |-> n.id, tree |-> t, nextId |-> nid] : n \in found}
           ELSE {[id |-> nid,
                  tree |-> BmCreate(t, nid, OtherBookmarksId, ROOT_FOLDER_NAME, NoUrl),
                  nextId |-> nid + 1]}

Group(id, name) == [id |-> id, name |-> name]

Tab(id, title, url) == [id |-> id, title |-> title, url |-> url]

Collection(id, name, tabs, groupId, expanded) ==
  [id |-> id, name |-> name, tabs |-> tabs, groupId |-> groupId,
   expanded |-> expanded]

\* loadGroups, given the root id: the folders under the root
LoadGroups(t, rootId) ==
  LET folders == SelectSeq(t[rootId], IsFolder)
  IN  [i \in DOMAIN folders |-> Group(folders[i].id, folders[i].title)]

\* loadTabsFromFolder: the bookmarks under a folder
LoadTabsFromFolder(t, folderId) ==
  LET marks == SelectSeq(t[folderId], LAMBDA n : ~IsFolder(n))
  IN  [i \in DOMAIN marks |-> Tab(marks[i].id, marks[i].title, marks[i].url)]

\* loadCollections: group by group, the folders under each group
RECURSIVE CollectionsOfGroups(_, _)
CollectionsOfGroups(t, gs) ==
  IF gs = <<>> THEN <<>>
  ELSE LET g == Head(gs)
           folders == SelectSeq(t[g.id], IsFolder)
       IN  [i \in DOMAIN folders |->
              Collection(folders[i].id, folders[i].title,
                         LoadTabsFromFolder(t, folders[i].id), g.id, FALSE)]
           \o CollectionsOfGroups(t, Tail(gs))

LoadCollections(t, rootId) == CollectionsOfGroups(t, LoadGroups(t, rootId))

----------------------------------------------------------------------------
(* storage.ts: the UI-state store (a function from collection ids) *)

\* {...a, ...b} for records given as functions over field names
Spread(a, b) ==
  [f \in DOMAIN a \cup DOMAIN b |-> IF f \in DOMAIN b THEN b[f] ELSE a[f]]

\* the given fields over the default, whatever is stored
UpdateCollectionUIStateOverDefault(states, collectionId, state) ==
  [c \in DOMAIN states \cup {collectionId} |->
     IF c = collectionId THEN Spread(DefaultUIState, state) ELSE states[c]]

\* updateCollectionUIState: the states saved for (collectionId, state)
UpdateCollectionUIState(states, collectionId, state) ==
  LET existing == IF collectionId \in DOMAIN states
                  THEN states[collectionId] ELSE DefaultUIState
  IN  [c \in DOMAIN states \cup {collectionId} |->
         IF c = collectionId THEN Spread(existing, state) ELSE states[c]]

\* an empty mapping saved, whatever was stored
RemoveCollectionUIStateAll(states, collectionId) ==
  [c \in {} |-> DefaultUIState]

\* removeCollectionUIState
RemoveCollectionUIState(states, collectionId) ==
  [c \in DOMAIN states \ {collectionId} |-> states[c]]

----------------------------------------------------------------------------
(* App.vue: startup *)

\* orderB - orderA
CompareOrderDescending(states, a, b) ==
  IF a.id \in DOMAIN states /\ b.id \in DOMAIN states
  THEN states[b.id].order - states[a.id].order
  ELSE 0

\* the comparator of the startup sort, orderA - orderB with Infinity for a
\* missing order: its sign, 0 for the NaN of Infinity - Infinity
CompareOrder(states, a, b) ==
  LET hasA == a.id \in DOMAIN states
      hasB == b.id \in DOMAIN states
  IN  IF ~hasA /\ ~hasB THEN 0
      ELSE IF ~hasA THEN 1
      ELSE IF ~hasB THEN -1
      ELSE IF states[a.id].order < states[b.id].order THEN -1
      ELSE IF states[a.id].order > states[b.id].order THEN 1
      ELSE 0

\* Array.prototype.sort with that comparator: a stable sort, so an element
\* comes after those that compare smaller and after the equal ones before it
SortByOrder(states, cs) ==
  LET Before(j, i) ==
        \/ CompareOrder(states, cs[j], cs[i]) < 0
        \/ CompareOrder(states, cs[j], cs[i]) = 0 /\ j < i
      Rank(i) == Cardinality({j \in DOMAIN cs : Before(j, i)}) + 1
  IN  [k \in DOMAIN cs |-> cs[CHOOSE i \in DOMAIN cs : Rank(i) = k]]

\* collectionsWithState of onMounted: expanded applied, sorted by order
CollectionsWithState(states, loaded) ==
  SortByOrder(states,
    [i \in DOMAIN loaded |->
       [loaded[i] EXCEPT !.expanded =
          IF loaded[i].id \in DOMAIN states
          THEN states[loaded[i].id].expanded ELSE FALSE]])

\* currentCollections, for a collection list cs and a selected group g
CurrentCollections(cs, g) ==
  IF g = Null THEN <<>> ELSE SelectSeq(cs, LAMBDA c : c.groupId = g)

Ids(s) == [i \in DOMAIN s |-> s[i].id]

----------------------------------------------------------------------------
(* The page as constructed (the initial values of the refs and of the     *)
(* module-level cache), and the browser profile before first use          *)

Constructed ==
  /\ rootFolderId = Null
  /\ groups = <<>> /\ collections = <<>> /\ selectedGroupId = Null
  /\ isLoading = TRUE
  /\ showOpenTabs = TRUE /\ showGroups = TRUE
  /\ watchQueued = FALSE
  /\ pendingMove = None
  /\ pendingCalls = <<>>
  /\ mountStep = "debugStorage"
  /\ editingCollectionId = Null /\ editingGroupId = Null
  /\ editingTabId = Null /\ editingName = <<>>
  /\ draggedTab = None /\ draggedOpenTab = None /\ dragOverCollectionId = Null
  /\ draggedCollection = Null /\ dragOverCollectionForSort = Null
  /\ dragOverTabId = Null /\ draggedGroup = Null /\ dragOverGroupId = Null
  /\ lastHandler = Ran("", NoUrl) /\ lastCalls = <<>> /\ alerts = 0

EmptyTree == [f \in {OtherBookmarksId} |-> <<>>]

NoUIStates == [c \in {} |-> DefaultUIState]

Init ==
  /\ tree = EmptyTree
  /\ nextId = OtherBookmarksId + 1
  /\ uiStates = NoUIStates
  /\ sidebarState = NoState
  /\ Constructed

\* an adapter call as the handler issued it
Call(op, id, to, index, title, ok) ==
  [op |-> op, id |-> id, to |-> to, index |-> index, title |-> title, ok |-> ok]

\* a variant that stores the pane flags instead of the collapsed flags
SidebarStateOfPanes(so, sg, sel) ==
  [leftCollapsed |-> so, rightCollapsed |-> sg,
   selectedGroupId |-> sel, present |-> TRUE]

\* the object the watcher hands to saveSidebarState
SidebarStateOf(so, sg, sel) ==
  [leftCollapsed |-> ~so, rightCollapsed |-> ~sg,
   selectedGroupId |-> sel, present |-> TRUE]

\* a variant of the callback without the isLoading guard
WatcherJobUnguarded(loading, so, sg, sel, state) == SidebarStateOf(so, sg, sel)

\* the watcher's callback, run with the refs at (so, sg, sel) and isLoading
\* at loading: the persisted sidebar state afterwards
WatcherJob(loading, so, sg, sel, state) ==
  IF loading THEN state ELSE SidebarStateOf(so, sg, sel)

\* the watcher on [showOpenTabs, showGroups, selectedGroupId]: what the
\* sidebar state holds once the handler that set (so, sg, sel) has finished
WatchSidebar(so, sg, sel) ==
  IF <<so, sg, sel>> # <<showOpenTabs, showGroups, selectedGroupId>>
  THEN WatcherJob(isLoading, so, sg, sel, sidebarState)
  ELSE sidebarState

\* a variant that takes the saved id without looking for its group
RestoredGroupIdUnchecked(savedState, loadedGroups, current) ==
  IF savedState.selectedGroupId # Null
  THEN savedState.selectedGroupId
  ELSE IF Len(loadedGroups) > 0 THEN loadedGroups[1].id
  ELSE current

\* the selection onMounted restores: the saved group if it is loaded, else
\* the first group, else what selectedGroupId holds
RestoredGroupId(savedState, loadedGroups, current) ==
  IF savedState.selectedGroupId # Null
     /\ Some(loadedGroups, LAMBDA g : g.id = savedState.selectedGroupId)
  THEN savedState.selectedGroupId
  ELSE IF Len(loadedGroups) > 0 THEN loadedGroups[1].id
  ELSE current

\* onMounted.  bookmarksOk: the bookmark calls of this startup resolve;
\* tabsOk: tabs.query of loadOpenTabs resolves.
OnMounted ==
  /\ isLoading
  /\ lastHandler' = Ran("onMounted", NoUrl)
  /\ \E bookmarksOk \in BOOLEAN, tabsOk \in BOOLEAN :
       \E r \in (IF bookmarksOk
                 THEN GetOrCreateRootFolder(rootFolderId, tree, nextId)
                 ELSE {[id |-> rootFolderId, tree |-> tree, nextId |-> nextId]}) :
         LET savedState == sidebarState
             loadedGroups == IF bookmarksOk THEN LoadGroups(r.tree, r.id) ELSE <<>>
             loadedCollections ==
               IF bookmarksOk THEN LoadCollections(r.tree, r.id) ELSE <<>>
             restored == RestoredGroupId(savedState, loadedGroups, selectedGroupId)
         IN  /\ tree' = r.tree
             /\ nextId' = r.nextId
             /\ rootFolderId' = r.id
             /\ showOpenTabs' = IF savedState.present
                                THEN ~savedState.leftCollapsed ELSE showOpenTabs
             /\ showGroups' = IF savedState.present
                              THEN ~savedState.rightCollapsed ELSE showGroups
             /\ selectedGroupId' = restored
             /\ groups' = IF tabsOk THEN loadedGroups ELSE <<>>
             /\ collections' = IF tabsOk
                               THEN CollectionsWithState(uiStates, loadedCollections)
                               ELSE <<>>
             \* the watcher's job runs at the await that follows the
             \* last restored value, before the finally block
             /\ sidebarState' = WatcherJob(isLoading, showOpenTabs', showGroups',
                                           selectedGroupId', sidebarState)
             /\ watchQueued' = FALSE
             /\ isLoading' = FALSE
             /\ mountStep' = "done"
             /\ lastCalls' = <<>>
             /\ alerts' = 0
  /\ UNCHANGED <<uiStates, pendingMove, pendingCalls, editVars, dragVars>>

\* the user closes the page and opens a new one: the refs and the module
\* state are constructed again, the stores stay
Reload ==
  /\ ~isLoading
  /\ rootFolderId' = Null
  /\ groups' = <<>> /\ collections' = <<>> /\ selectedGroupId' = Null
  /\ isLoading' = TRUE
  /\ showOpenTabs' = TRUE /\ showGroups' = TRUE
  /\ watchQueued' = FALSE
  /\ pendingMove' = None
  /\ pendingCalls' = <<>>
  /\ mountStep' = "debugStorage"
  /\ editingCollectionId' = Null /\ editingGroupId' = Null
  /\ editingTabId' = Null /\ editingName' = <<>>
  /\ draggedTab' = None /\ draggedOpenTab' = None /\ dragOverCollectionId' = Null
  /\ draggedCollection' = Null /\ dragOverCollectionForSort' = Null
  /\ dragOverTabId' = Null /\ draggedGroup' = Null /\ dragOverGroupId' = Null
  /\ lastHandler' = Ran("", NoUrl) /\ lastCalls' = <<>> /\ alerts' = 0
  /\ UNCHANGED storeVars

\* click on a group item
SelectGroup ==
  /\ ~isLoading
  /\ lastHandler' = Ran("selectGroup", NoUrl)
  /\ \E i \in DOMAIN groups :
       /\ selectedGroupId' = groups[i].id
       /\ sidebarState' = WatchSidebar(showOpenTabs, showGroups, groups[i].id)
  /\ lastCalls' = <<>>
  /\ alerts' = 0
  /\ UNCHANGED <<tree, nextId, uiStates, rootFolderId, groups, collections,
                 isLoading, paneVars, editVars, dragVars>>

\* names typed into the new-group and new-collection dialogs
NewNames == {<<>>, <<" ">>, <<" ", "a">>}

\* createGroup, with newGroupName = name
CreateGroupOf(name) ==
  /\ ~isLoading
  /\ lastHandler' = Ran("createGroup", NoUrl)
  /\ IF Trim(name) = <<>>
     THEN /\ lastCalls' = <<>>
          /\ alerts' = 0
          /\ UNCHANGED <<storeVars, rootFolderId, mirrorVars>>
     ELSE \E ok \in BOOLEAN :
               IF ok
               THEN \E r \in GetOrCreateRootFolder(rootFolderId, tree, nextId) :
                      LET newGroup == Group(r.nextId, Trim(name))
                      IN  /\ tree' = BmCreate(r.tree, r.nextId, r.id, Trim(name), NoUrl)
                          /\ nextId' = r.nextId + 1
                          /\ rootFolderId' = r.id
                          /\ groups' = Append(groups, newGroup)
                          /\ selectedGroupId' = newGroup.id
                          /\ sidebarState' =
                               WatchSidebar(showOpenTabs, showGroups, newGroup.id)
                          /\ lastCalls' =
                               <<Call("createGroup", Null, Null, -1, Trim(name), TRUE)>>
                          /\ alerts' = 0
                          /\ UNCHANGED <<uiStates, collections>>
               ELSE /\ lastCalls' =
                         <<Call("createGroup", Null, Null, -1, Trim(name), FALSE)>>
                    /\ alerts' = 1
                    /\ UNCHANGED <<storeVars, rootFolderId, mirrorVars>>
  /\ UNCHANGED <<isLoading, paneVars, editVars, dragVars>>

\* the number of nodes the bookmark store has created
Created == nextId - (OtherBookmarksId + 1)

CreateGroup ==
  /\ Created < MaxNodes
  /\ Len(groups) < MaxGroups
  /\ \E name \in NewNames : CreateGroupOf(name)

\* the mirror after a deleteGroup(id) whose adapter call resolved
\* the filter on the collection's own id
DeleteGroupCollectionsById(cs, id) == SelectSeq(cs, LAMBDA c : c.id # id)

DeleteGroupCollections(cs, id) == SelectSeq(cs, LAMBDA c : c.groupId # id)

DeleteGroupGroups(gs, id) == SelectSeq(gs, LAMBDA g : g.id # id)

DeleteGroupSelected(gs, sel, id) ==
  IF sel = id
  THEN IF DeleteGroupGroups(gs, id) # <<>>
       THEN DeleteGroupGroups(gs, id)[1].id ELSE Null
  ELSE sel

\* a variant that removes the records of the group's collections
DeleteGroupUIStatesCleaned(states, cs, id) ==
  [c \in {k \in DOMAIN states :
            \A i \in DOMAIN cs : cs[i].id = k => cs[i].groupId # id} |-> states[c]]

\* the UI-state store after deleteGroup(id): the try block has no call on
\* it, so the store is as it was
DeleteGroupUIStates(states, cs, id) == states

\* deleteGroup(id); confirmed: the answer to confirm()
DeleteGroupOf(id, confirmed, ok) ==
  /\ ~isLoading
  /\ lastHandler' = Ran("deleteGroup", NoUrl)
  /\ IF ~confirmed
     THEN /\ lastCalls' = <<>>
          /\ alerts' = 0
          /\ UNCHANGED <<storeVars, mirrorVars>>
     ELSE IF ok /\ BmExists(tree, id)
     THEN /\ tree' = BmRemoveTree(tree, id)
          /\ collections' = DeleteGroupCollections(collections, id)
          /\ groups' = DeleteGroupGroups(groups, id)
          /\ selectedGroupId' = DeleteGroupSelected(groups, selectedGroupId, id)
          /\ sidebarState' =
               WatchSidebar(showOpenTabs, showGroups,
                            DeleteGroupSelected(groups, selectedGroupId, id))
          /\ uiStates' = DeleteGroupUIStates(uiStates, collections, id)
          /\ lastCalls' = <<Call("deleteGroup", id, Null, -1, <<>>, TRUE)>>
          /\ alerts' = 0
          /\ UNCHANGED nextId
     ELSE /\ lastCalls' = <<Call("deleteGroup", id, Null, -1, <<>>, FALSE)>>
          /\ alerts' = 1
          /\ UNCHANGED <<storeVars, mirrorVars>>
  /\ UNCHANGED <<rootFolderId, isLoading, paneVars, editVars, dragVars>>

DeleteGroup ==
  \E i \in DOMAIN groups : \E confirmed \in BOOLEAN, ok \in BOOLEAN :
    DeleteGroupOf(groups[i].id, confirmed, ok)

\* createCollection, with newCollectionName = name
CreateCollectionOf(name) ==
  /\ ~isLoading
  /\ lastHandler' = Ran("createCollection", NoUrl)
  /\ IF Trim(name) = <<>> \/ selectedGroupId = Null
     THEN /\ lastCalls' = <<>>
          /\ alerts' = 0
          /\ UNCHANGED <<storeVars, mirrorVars>>
     ELSE \E ok \in BOOLEAN :
               IF ok /\ selectedGroupId \in DOMAIN tree
               THEN /\ tree' = BmCreate(tree, nextId, selectedGroupId, Trim(name), NoUrl)
                    /\ nextId' = nextId + 1
                    /\ collections' =
                         Append(collections,
                                Collection(nextId, Trim(name), <<>>,
                                           selectedGroupId, FALSE))
                    /\ lastCalls' = <<Call("createCollection", Null, selectedGroupId,
                                           -1, Trim(name), TRUE)>>
                    /\ alerts' = 0
                    /\ UNCHANGED <<uiStates, sidebarState, groups, selectedGroupId>>
               ELSE /\ lastCalls' = <<Call("createCollection", Null, selectedGroupId,
                                           -1, Trim(name), FALSE)>>
                    /\ alerts' = 1
                    /\ UNCHANGED <<storeVars, mirrorVars>>
  /\ UNCHANGED <<rootFolderId, isLoading, paneVars, editVars, dragVars>>

CreateCollection ==
  /\ Created < MaxNodes
  /\ Len(collections) < MaxCollections
  /\ \E name \in NewNames : CreateCollectionOf(name)

\* deleteCollection(id)
DeleteCollectionOf(id, confirmed, ok) ==
  /\ ~isLoading
  /\ lastHandler' = Ran("deleteCollection", NoUrl)
  /\ IF ~confirmed
     THEN /\ lastCalls' = <<>>
          /\ alerts' = 0
          /\ UNCHANGED <<storeVars, mirrorVars>>
     ELSE IF ok /\ BmExists(tree, id)
     THEN /\ tree' = BmRemoveTree(tree, id)
          /\ uiStates' = RemoveCollectionUIState(uiStates, id)
          /\ collections' = SelectSeq(collections, LAMBDA c : c.id # id)
          /\ lastCalls' = <<Call("deleteCollection", id, Null, -1, <<>>, TRUE),
                           Call("removeCollectionUIState", id, Null, -1, <<>>, TRUE)>>
          /\ alerts' = 0
          /\ UNCHANGED <<nextId, sidebarState, groups, selectedGroupId>>
     ELSE /\ lastCalls' = <<Call("deleteCollection", id, Null, -1, <<>>, FALSE)>>
          /\ alerts' = 1
          /\ UNCHANGED <<storeVars, mirrorVars>>
  /\ UNCHANGED <<rootFolderId, isLoading, paneVars, editVars, dragVars>>

\* the cards on screen are those of currentCollections
Visible == CurrentCollections(collections, selectedGroupId)

DeleteCollection ==
  \E i \in DOMAIN Visible : \E confirmed \in BOOLEAN, ok \in BOOLEAN :
    DeleteCollectionOf(Visible[i].id, confirmed, ok)

\* saveCollectionOrder: the states saved for the collection list cs
RECURSIVE SaveCollectionOrderFrom(_, _, _)
SaveCollectionOrderFrom(states, cs, index) ==
  IF index >= Len(cs) THEN states
  ELSE LET c == At(cs, index)
           prior == IF c.id \in DOMAIN states THEN states[c.id] ELSE <<>>
           entry == Spread(prior, [expanded |-> c.expanded, order |-> index])
       IN  SaveCollectionOrderFrom(
             [k \in DOMAIN states \cup {c.id} |->
                IF k = c.id THEN entry ELSE states[k]],
             cs, index + 1)

SaveCollectionOrder(states, cs) == SaveCollectionOrderFrom(states, cs, 0)

\* toggleCollectionExpand(collection)
ToggleCollectionExpand ==
  /\ ~isLoading
  /\ lastHandler' = Ran("toggleCollectionExpand", NoUrl)
  /\ \E i \in DOMAIN Visible :
       LET c == Visible[i]
       IN  /\ collections' =
                [k \in DOMAIN collections |->
                   IF collections[k].id = c.id
                   THEN [collections[k] EXCEPT !.expanded = ~c.expanded]
                   ELSE collections[k]]
           /\ uiStates' =
                UpdateCollectionUIState(uiStates, c.id, [expanded |-> ~c.expanded])
           /\ lastCalls' =
                <<Call("updateCollectionUIState", c.id, Null, -1, <<>>, TRUE)>>
  /\ alerts' = 0
  /\ UNCHANGED <<tree, nextId, sidebarState, rootFolderId, groups,
                 selectedGroupId, isLoading, paneVars, editVars, dragVars>>

\* onCollectionDragStart(collectionId)
OnCollectionDragStart ==
  /\ ~isLoading
  /\ lastHandler' = Ran("onCollectionDragStart", NoUrl)
  /\ \E i \in DOMAIN Visible : draggedCollection' = Visible[i].id
  /\ draggedTab' = None
  /\ draggedOpenTab' = None
  /\ lastCalls' = <<>>
  /\ alerts' = 0
  /\ UNCHANGED <<storeVars, rootFolderId, mirrorVars, isLoading, paneVars,
                 editVars, dragOverCollectionId, dragOverCollectionForSort,
                 dragOverTabId, draggedGroup, dragOverGroupId>>

\* the splices with the target index counted before the source left
MoveToCountedBefore(s, sourceIndex, targetIndex) ==
  SpliceIn(SpliceOut(s, sourceIndex),
           IF targetIndex > sourceIndex THEN targetIndex - 1 ELSE targetIndex,
           At(s, sourceIndex))

\* the list after the two splices of onGroupDrop and of onCollectionDrop
MoveTo(s, sourceIndex, targetIndex) ==
  SpliceIn(SpliceOut(s, sourceIndex), targetIndex, At(s, sourceIndex))

\* onCollectionDrop(targetCollectionId): the card's drop listener calls it
\* when draggedCollection is set
OnCollectionDropOn(targetCollectionId) ==
  /\ ~isLoading
  /\ lastHandler' = Ran("onCollectionDrop", NoUrl)
  /\ draggedCollection # Null
  /\ IF draggedCollection = targetCollectionId
     THEN /\ lastCalls' = <<>>
          /\ UNCHANGED <<collections, uiStates>>
     ELSE LET sourceIndex ==
                FindIndex(collections, LAMBDA c : c.id = draggedCollection)
              targetIndex ==
                FindIndex(collections, LAMBDA c : c.id = targetCollectionId)
          IN  IF sourceIndex > -1 /\ targetIndex > -1
              THEN /\ collections' = MoveTo(collections, sourceIndex, targetIndex)
                   /\ uiStates' = SaveCollectionOrder(uiStates, collections')
                   /\ lastCalls' = <<Call("saveCollectionOrder", draggedCollection,
                                          targetCollectionId, targetIndex, <<>>, TRUE)>>
              ELSE /\ lastCalls' = <<>>
                   /\ UNCHANGED <<collections, uiStates>>
  /\ draggedCollection' = Null
  /\ dragOverCollectionForSort' = Null
  /\ alerts' = 0
  /\ UNCHANGED <<tree, nextId, sidebarState, rootFolderId, groups,
                 selectedGroupId, isLoading, paneVars, editVars, draggedTab,
                 draggedOpenTab, dragOverCollectionId, dragOverTabId,
                 draggedGroup, dragOverGroupId>>

OnCollectionDrop == \E i \in DOMAIN Visible : OnCollectionDropOn(Visible[i].id)

\* onDragEnd
OnDragEnd ==
  /\ ~isLoading
  /\ lastHandler' = Ran("onDragEnd", NoUrl)
  /\ draggedTab' = None
  /\ draggedOpenTab' = None
  /\ dragOverCollectionId' = Null
  /\ draggedCollection' = Null
  /\ dragOverCollectionForSort' = Null
  /\ dragOverTabId' = Null
  /\ lastCalls' = <<>>
  /\ alerts' = 0
  /\ UNCHANGED <<storeVars, rootFolderId, mirrorVars, isLoading, paneVars,
                 editVars, draggedGroup, dragOverGroupId>>

----------------------------------------------------------------------------
(* Spec: the life of groups and collections, from a fresh browser profile *)

Next ==
  \/ OnMounted
  \/ Reload
  \/ SelectGroup
  \/ CreateGroup
  \/ DeleteGroup
  \/ CreateCollection
  \/ DeleteCollection
  \/ ToggleCollectionExpand

Spec == Init /\ [][Next]_vars

----------------------------------------------------------------------------
(* SpecOrder: the order of collections, from a fresh browser profile *)

OrderCreateGroup ==
  /\ Created < MaxOrderNodes
  /\ Len(groups) < MaxGroups
  /\ CreateGroupOf(<<"a">>)

OrderCreateCollection ==
  /\ Created < MaxOrderNodes
  /\ Len(collections) < MaxCollections
  /\ CreateCollectionOf(<<"a">>)

NextOrder ==
  \/ OnMounted
  \/ Reload
  \/ SelectGroup
  \/ OrderCreateGroup
  \/ OrderCreateCollection
  \/ OnCollectionDragStart
  \/ OnCollectionDrop
  \/ OnDragEnd

SpecOrder == Init /\ [][NextOrder]_vars

----------------------------------------------------------------------------
(* App.vue: tabs *)

\* the tabs the browser can have open: [url, title]
BrowserTabs ==
  { [url |-> <<"https://", "a">>, title |-> <<"A">>],
    [url |-> <<"https://", "b">>, title |-> <<>>],
    [url |-> <<"javascript:", "x">>, title |-> <<"J">>],
    [url |-> <<"chrome://", "x">>, title |-> <<"C">>],
    [url |-> NoUrl, title |-> <<"N">>] }

\* String.prototype.startsWith, for a scheme prefix
StartsWith(url, prefix) == url # NoUrl /\ url[1] = prefix

\* a variant with the prefixes of loadOpenTabs, which lack javascript:
IsValidTabUrlAsListed(url) ==
  /\ url # NoUrl
  /\ ~\E prefix \in {"chrome://", "chrome-extension://", "about:", "edge://",
                     "brave://"} : StartsWith(url, prefix)

\* isValidTabUrl
IsValidTabUrl(url) ==
  /\ url # NoUrl
  /\ ~\E prefix \in {"chrome://", "chrome-extension://", "about:", "edge://",
                     "brave://", "javascript:"} : StartsWith(url, prefix)

\* the filter of loadOpenTabs: the tabs listed in the left sidebar
IsListedOpenTab(tab) ==
  /\ tab.url # NoUrl
  /\ ~\E prefix \in {"chrome://", "chrome-extension://", "about:", "edge://",
                     "brave://"} : StartsWith(tab.url, prefix)

\* a || b for texts
OrElse(a, b) == IF a # <<>> THEN a ELSE b

HasCollection(cid) == Some(collections, LAMBDA c : c.id = cid)

TabsOf(cid) == (CHOOSE c \in Range(collections) : c.id = cid).tabs

\* the urls of the target not looked at
HasUrlUnchecked(tabs, url) == FALSE

HasUrl(tabs, url) == Some(tabs, LAMBDA t : t.url = url)

\* the collection list with the tabs of collection cid replaced
WithTabs(cs, cid, tabs) ==
  [k \in DOMAIN cs |-> IF cs[k].id = cid THEN [cs[k] EXCEPT !.tabs = tabs] ELSE cs[k]]

\* addTabToCollection resolves: the store accepts the bookmark
CanAdd(ok, cid, budget) == ok /\ cid \in DOMAIN tree /\ Created < budget

\* onDragStart(collectionId, tabId)
OnDragStartOf(collectionId, tabId) ==
  /\ ~isLoading
  /\ lastHandler' = Ran("onDragStart", NoUrl)
  /\ draggedTab' = [collectionId |-> collectionId, tabId |-> tabId]
  /\ draggedOpenTab' = None
  /\ lastCalls' = <<>>
  /\ alerts' = 0
  /\ UNCHANGED <<storeVars, rootFolderId, mirrorVars, isLoading, paneVars,
                 editVars, dragOverCollectionId, draggedCollection,
                 dragOverCollectionForSort, dragOverTabId, draggedGroup,
                 dragOverGroupId>>

OnDragStart ==
  \E i \in DOMAIN Visible : \E j \in DOMAIN Visible[i].tabs :
    OnDragStartOf(Visible[i].id, Visible[i].tabs[j].id)

\* onDragStartOpenTab(tab)
OnDragStartOpenTabOf(tab) ==
  /\ ~isLoading
  /\ lastHandler' = Ran("onDragStartOpenTab", NoUrl)
  /\ draggedOpenTab' = tab
  /\ draggedTab' = None
  /\ lastCalls' = <<>>
  /\ alerts' = 0
  /\ UNCHANGED <<storeVars, rootFolderId, mirrorVars, isLoading, paneVars,
                 editVars, dragOverCollectionId, draggedCollection,
                 dragOverCollectionForSort, dragOverTabId, draggedGroup,
                 dragOverGroupId>>

OnDragStartOpenTab ==
  \E tab \in {t \in BrowserTabs : IsListedOpenTab(t)} : OnDragStartOpenTabOf(tab)

\* the open-tab branch without the look at the urls the collection has
DropOpenTabUnchecked(cid, tabs, targetIndex, ok, budget) ==
  LET tab == draggedOpenTab
      title == OrElse(tab.title, tab.url)
  IN  IF tab.url # NoUrl /\ IsValidTabUrl(tab.url) /\ CanAdd(ok, cid, budget)
      THEN [tabs |-> Append(tabs, Tab(nextId, title, tab.url)),
            tree |-> BmCreate(tree, nextId, cid, title, tab.url),
            nextId |-> nextId + 1,
            calls |-> <<Call("addTabToCollection", Null, cid, -1, title, TRUE)>>]
      ELSE [tabs |-> tabs, tree |-> tree, nextId |-> nextId, calls |-> <<>>]

\* the open-tab branch shared by onTabDrop (targetIndex: where the hovered
\* tab is, -1 on a card) and onDropToCollection: the tab list, the store and
\* the calls after it
DropOpenTab(cid, tabs, targetIndex, ok, budget) ==
  LET tab == draggedOpenTab
      title == OrElse(tab.title, tab.url)
  IN  IF tab.url # NoUrl /\ IsValidTabUrl(tab.url) /\ ~HasUrl(tabs, tab.url)
      THEN IF CanAdd(ok, cid, budget)
           THEN [tabs |-> IF targetIndex > -1
                          THEN SpliceIn(tabs, targetIndex, Tab(nextId, title, tab.url))
                          ELSE Append(tabs, Tab(nextId, title, tab.url)),
                 tree |-> BmCreate(tree, nextId, cid, title, tab.url),
                 nextId |-> nextId + 1,
                 calls |-> <<Call("addTabToCollection", Null, cid, -1, title, TRUE)>>]
           ELSE [tabs |-> tabs, tree |-> tree, nextId |-> nextId,
                 calls |-> <<Call("addTabToCollection", Null, cid, -1, title, FALSE)>>]
      ELSE [tabs |-> tabs, tree |-> tree, nextId |-> nextId, calls |-> <<>>]

\* moveTab resolves
CanMove(ok, tabId, cid) == ok /\ BmExists(tree, tabId) /\ cid \in DOMAIN tree

\* onTabDrop(collectionId, targetTabId)
OnTabDropOn(collectionId, targetTabId, ok, budget) ==
  /\ ~isLoading
  /\ lastHandler' = [Ran("onTabDrop", IF draggedOpenTab # None
                                        THEN draggedOpenTab.url ELSE NoUrl)
                       EXCEPT !.tab = IF draggedOpenTab # None
                                      THEN None ELSE draggedTab]
  /\ IF ~HasCollection(collectionId)
     THEN /\ lastCalls' = <<>>
          /\ UNCHANGED <<tree, nextId, collections, draggedOpenTab, draggedTab,
                         dragOverTabId>>
     ELSE IF draggedOpenTab # None
     THEN LET tabs == TabsOf(collectionId)
              targetIndex == FindIndex(tabs, LAMBDA t : t.id = targetTabId)
              r == DropOpenTab(collectionId, tabs, targetIndex, ok, budget)
          IN  /\ collections' = WithTabs(collections, collectionId, r.tabs)
              /\ tree' = r.tree
              /\ nextId' = r.nextId
              /\ lastCalls' = r.calls
              /\ draggedOpenTab' = None
              /\ dragOverTabId' = Null
              /\ UNCHANGED draggedTab
     ELSE /\ IF draggedTab = None
             THEN /\ lastCalls' = <<>>
                  /\ UNCHANGED <<tree, collections>>
             ELSE LET sourceCollectionId == draggedTab.collectionId
                      sourceTabId == draggedTab.tabId
                      tabs == TabsOf(collectionId)
                      targetIndex == FindIndex(tabs, LAMBDA t : t.id = targetTabId)
                  IN  IF sourceCollectionId = collectionId
                      THEN LET sourceIndex ==
                                 FindIndex(tabs, LAMBDA t : t.id = sourceTabId)
                           IN  /\ collections' =
                                    IF sourceIndex > -1 /\ targetIndex > -1
                                       /\ sourceIndex # targetIndex
                                    THEN WithTabs(collections, collectionId,
                                                  MoveTo(tabs, sourceIndex, targetIndex))
                                    ELSE collections
                               /\ lastCalls' = <<>>
                               /\ UNCHANGED tree
                      ELSE IF ~HasCollection(sourceCollectionId)
                      THEN /\ lastCalls' = <<>>
                           /\ UNCHANGED <<tree, collections>>
                      ELSE LET sourceTabs == TabsOf(sourceCollectionId)
                               sourceIndex ==
                                 FindIndex(sourceTabs, LAMBDA t : t.id = sourceTabId)
                               exists ==
                                 sourceIndex > -1
                                 /\ HasUrl(tabs, At(sourceTabs, sourceIndex).url)
                           IN  IF sourceIndex > -1 /\ ~exists
                               THEN IF CanMove(ok, sourceTabId, collectionId)
                                    THEN /\ tree' = BmMove(tree, sourceTabId,
                                                           collectionId, -1)
                                         /\ collections' =
                                              WithTabs(
                                                WithTabs(collections, sourceCollectionId,
                                                         SpliceOut(sourceTabs, sourceIndex)),
                                                collectionId,
                                                IF targetIndex > -1
                                                THEN SpliceIn(tabs, targetIndex,
                                                              At(sourceTabs, sourceIndex))
                                                ELSE Append(tabs,
                                                            At(sourceTabs, sourceIndex)))
                                         /\ lastCalls' =
                                              <<Call("moveTab", sourceTabId, collectionId,
                                                     -1, <<>>, TRUE)>>
                                    ELSE /\ lastCalls' =
                                              <<Call("moveTab", sourceTabId, collectionId,
                                                     -1, <<>>, FALSE)>>
                                         /\ UNCHANGED <<tree, collections>>
                               ELSE /\ lastCalls' = <<>>
                                    /\ UNCHANGED <<tree, collections>>
          /\ draggedTab' = None
          /\ dragOverTabId' = Null
          /\ UNCHANGED <<nextId, draggedOpenTab>>
  /\ alerts' = 0
  /\ UNCHANGED <<uiStates, sidebarState, rootFolderId, groups, selectedGroupId,
                 isLoading, paneVars, editVars, dragOverCollectionId,
                 draggedCollection, dragOverCollectionForSort, draggedGroup,
                 dragOverGroupId>>

\* onDropToCollection(targetCollectionId): the card's drop listener calls it
\* when draggedCollection is not set
OnDropToCollectionOn(targetCollectionId, ok, budget) ==
  /\ ~isLoading
  /\ lastHandler' = [Ran("onDropToCollection", IF draggedOpenTab # None
                                        THEN draggedOpenTab.url ELSE NoUrl)
                       EXCEPT !.tab = IF draggedOpenTab # None
                                      THEN None ELSE draggedTab]
  /\ draggedCollection = Null
  /\ IF ~HasCollection(targetCollectionId)
     THEN /\ lastCalls' = <<>>
          /\ UNCHANGED <<tree, nextId, collections, draggedOpenTab, draggedTab,
                         dragOverCollectionId>>
     ELSE IF draggedOpenTab # None
     THEN LET r == DropOpenTab(targetCollectionId, TabsOf(targetCollectionId),
                               -1, ok, budget)
          IN  /\ collections' = WithTabs(collections, targetCollectionId, r.tabs)
              /\ tree' = r.tree
              /\ nextId' = r.nextId
              /\ lastCalls' = r.calls
              /\ draggedOpenTab' = None
              /\ dragOverCollectionId' = Null
              /\ UNCHANGED draggedTab
     ELSE /\ IF draggedTab = None \/ draggedTab.collectionId = targetCollectionId
                \/ ~HasCollection(draggedTab.collectionId)
             THEN /\ lastCalls' = <<>>
                  /\ UNCHANGED <<tree, collections>>
             ELSE LET sourceCollectionId == draggedTab.collectionId
                      tabId == draggedTab.tabId
                      sourceTabs == TabsOf(sourceCollectionId)
                      targetTabs == TabsOf(targetCollectionId)
                      tabIndex == FindIndex(sourceTabs, LAMBDA t : t.id = tabId)
                  IN  IF tabIndex > -1
                         /\ ~HasUrl(targetTabs, At(sourceTabs, tabIndex).url)
                      THEN IF CanMove(ok, tabId, targetCollectionId)
                           THEN /\ tree' = BmMove(tree, tabId, targetCollectionId, -1)
                                /\ collections' =
                                     WithTabs(
                                       WithTabs(collections, sourceCollectionId,
                                                SpliceOut(sourceTabs, tabIndex)),
                                       targetCollectionId,
                                       Append(targetTabs, At(sourceTabs, tabIndex)))
                                /\ lastCalls' =
                                     <<Call("moveTab", tabId, targetCollectionId,
                                            -1, <<>>, TRUE)>>
                           ELSE /\ lastCalls' =
                                     <<Call("moveTab", tabId, targetCollectionId,
                                            -1, <<>>, FALSE)>>
                                /\ UNCHANGED <<tree, collections>>
                      ELSE /\ lastCalls' = <<>>
                           /\ UNCHANGED <<tree, collections>>
          /\ draggedTab' = None
          /\ draggedOpenTab' = None
          /\ dragOverCollectionId' = Null
          /\ UNCHANGED nextId
  /\ alerts' = 0
  /\ UNCHANGED <<uiStates, sidebarState, rootFolderId, groups, selectedGroupId,
                 isLoading, paneVars, editVars, draggedCollection,
                 dragOverCollectionForSort, dragOverTabId, draggedGroup,
                 dragOverGroupId>>

\* a variant of the loop that a rejected create ends
SaveTabsLoopStopping(cid, tabs, windowTabs, oks, budget) ==
  LET existingUrls == {tabs[k].url : k \in DOMAIN tabs}
      Tried(k) == /\ IsValidTabUrl(windowTabs[k].url)
                  /\ windowTabs[k].url \notin existingUrls
      Title(k) == OrElse(windowTabs[k].title, <<"Untitled">>)
      Reached(k) == \A j \in 1..(k - 1) : Tried(j) => oks[j]
      idx == SelectSeq([k \in DOMAIN windowTabs |-> k],
                       LAMBDA k : Tried(k) /\ Reached(k) /\ oks[k])
      tried == SelectSeq([k \in DOMAIN windowTabs |-> k],
                         LAMBDA k : Tried(k) /\ Reached(k))
      newTabs == [n \in DOMAIN idx |->
                    Tab(nextId + n - 1, Title(idx[n]), windowTabs[idx[n]].url)]
  IN  [tabs |-> tabs \o newTabs,
       tree |-> IF newTabs = <<>> THEN tree
                ELSE [tree EXCEPT ![cid] =
                        @ \o [n \in DOMAIN newTabs |->
                                Node(newTabs[n].id, newTabs[n].title, newTabs[n].url)]],
       nextId |-> nextId + Len(newTabs),
       calls |-> [n \in DOMAIN tried |->
                    Call("addTabToCollection", Null, cid, -1, Title(tried[n]),
                         oks[tried[n]])]]

\* the loop of saveCurrentTabs over the window's tabs.  The set existingUrls
\* is taken once, before the loop; oks[k] tells whether the create for the
\* k-th tab resolves (it does not once the store holds budget nodes).  The
\* result is the collection's tab list, the store and the calls after it.
SaveTabsLoop(cid, tabs, windowTabs, oks, budget) ==
  LET existingUrls == {tabs[k].url : k \in DOMAIN tabs}
      Tried(k) == /\ IsValidTabUrl(windowTabs[k].url)
                  /\ windowTabs[k].url \notin existingUrls
      Title(k) == OrElse(windowTabs[k].title, <<"Untitled">>)
      \* creates that resolved among the first k tabs, the budget aside
      Resolved(k) == {j \in 1..k : Tried(j) /\ oks[j] /\ cid \in DOMAIN tree}
      Added(k) == /\ k \in Resolved(k)
                  /\ Created + Cardinality(Resolved(k)) <= budget
      added == {k \in DOMAIN windowTabs : Added(k)}
      IdOf(k) == nextId + Cardinality({j \in added : j < k})
      idx == SelectSeq([k \in DOMAIN windowTabs |-> k], Added)
      tried == SelectSeq([k \in DOMAIN windowTabs |-> k], Tried)
      newTabs == [n \in DOMAIN idx |->
                    Tab(IdOf(idx[n]), Title(idx[n]), windowTabs[idx[n]].url)]
  IN  [tabs |-> tabs \o newTabs,
       tree |-> IF newTabs = <<>> THEN tree
                ELSE [tree EXCEPT ![cid] =
                        @ \o [n \in DOMAIN newTabs |->
                                Node(newTabs[n].id, newTabs[n].title, newTabs[n].url)]],
       nextId |-> nextId + Len(newTabs),
       calls |-> [n \in DOMAIN tried |->
                    Call("addTabToCollection", Null, cid, -1, Title(tried[n]),
                         Added(tried[n]))]]

\* saveCurrentTabs(collectionId), tabs.query giving windowTabs
SaveCurrentTabsOf(collectionId, windowTabs, oks, budget) ==
  /\ ~isLoading
  /\ lastHandler' = Ran("saveCurrentTabs", NoUrl)
  /\ IF ~HasCollection(collectionId)
     THEN /\ lastCalls' = <<>>
          /\ UNCHANGED <<tree, nextId, collections>>
     ELSE LET r == SaveTabsLoop(collectionId, TabsOf(collectionId), windowTabs,
                                oks, budget)
          IN  /\ collections' = WithTabs(collections, collectionId, r.tabs)
              /\ tree' = r.tree
              /\ nextId' = r.nextId
              /\ lastCalls' = r.calls
  /\ alerts' = 0
  /\ UNCHANGED <<uiStates, sidebarState, rootFolderId, groups, selectedGroupId,
                 isLoading, paneVars, editVars, dragVars>>

\* deleteTab with an alert in its catch block
DeleteTabOfAlerting(collectionId, tabId, ok) ==
  /\ ~isLoading
  /\ lastHandler' = Ran("deleteTab", NoUrl)
  /\ IF ~HasCollection(collectionId)
     THEN /\ lastCalls' = <<>>
          /\ UNCHANGED <<tree, collections>>
     ELSE IF ok /\ BmExists(tree, tabId)
     THEN /\ tree' = BmRemoveTree(tree, tabId)
          /\ collections' =
               WithTabs(collections, collectionId,
                        SelectSeq(TabsOf(collectionId), LAMBDA t : t.id # tabId))
          /\ lastCalls' = <<Call("removeTabFromCollection", tabId, Null, -1, <<>>, TRUE)>>
     ELSE /\ lastCalls' = <<Call("removeTabFromCollection", tabId, Null, -1, <<>>, FALSE)>>
          /\ UNCHANGED <<tree, collections>>
  /\ alerts' = IF HasCollection(collectionId) /\ ~(ok /\ BmExists(tree, tabId))
              THEN 1 ELSE 0
  /\ UNCHANGED <<nextId, uiStates, sidebarState, rootFolderId, groups,
                 selectedGroupId, isLoading, paneVars, editVars, dragVars>>

\* deleteTab(collectionId, tabId)
DeleteTabOf(collectionId, tabId, ok) ==
  /\ ~isLoading
  /\ lastHandler' = Ran("deleteTab", NoUrl)
  /\ IF ~HasCollection(collectionId)
     THEN /\ lastCalls' = <<>>
          /\ UNCHANGED <<tree, collections>>
     ELSE IF ok /\ BmExists(tree, tabId)
     THEN /\ tree' = BmRemoveTree(tree, tabId)
          /\ collections' =
               WithTabs(collections, collectionId,
                        SelectSeq(TabsOf(collectionId), LAMBDA t : t.id # tabId))
          /\ lastCalls' = <<Call("removeTabFromCollection", tabId, Null, -1, <<>>, TRUE)>>
     ELSE /\ lastCalls' = <<Call("removeTabFromCollection", tabId, Null, -1, <<>>, FALSE)>>
          /\ UNCHANGED <<tree, collections>>
  /\ alerts' = 0
  /\ UNCHANGED <<nextId, uiStates, sidebarState, rootFolderId, groups,
                 selectedGroupId, isLoading, paneVars, editVars, dragVars>>

----------------------------------------------------------------------------
(* SpecTabs: tabs of two collections.  The stores are those a first session *)
(* leaves that created one group (4) and two collections (5, 6) in it.      *)

SeedTabsTree ==
  (OtherBookmarksId :> <<Node(3, ROOT_FOLDER_NAME, NoUrl)>>)
  @@ (3 :> <<Node(4, <<"a">>, NoUrl)>>)
  @@ (4 :> <<Node(5, <<"a">>, NoUrl), Node(6, <<"a">>, NoUrl)>>)
  @@ (5 :> <<>>) @@ (6 :> <<>>)

InitTabs ==
  /\ tree = SeedTabsTree
  /\ nextId = 7
  /\ uiStates = NoUIStates
  /\ sidebarState = [leftCollapsed |-> FALSE, rightCollapsed |-> FALSE,
                     selectedGroupId |-> 4, present |-> TRUE]
  /\ Constructed

\* nodes the store may hold in SpecTabs: the four seeded folders and the tabs
TabsBudget == 4 + MaxTabs

\* the tabs on screen: [collectionId, tabId]
VisibleTabs ==
  UNION {{[collectionId |-> Visible[i].id, tabId |-> Visible[i].tabs[j].id] :
            j \in DOMAIN Visible[i].tabs} : i \in DOMAIN Visible}

\* the tabs of the current window in SpecTabs, and the lists of at most n
WindowTabs == {t \in BrowserTabs : t.url # NoUrl /\ t.url[1] # "chrome://"}

WindowTabLists(n) == UNION {[1..k -> WindowTabs] : k \in 0..n}

OnTabDrop ==
  \E t \in VisibleTabs : \E ok \in BOOLEAN :
    OnTabDropOn(t.collectionId, t.tabId, ok, TabsBudget)

OnDropToCollection ==
  \E i \in DOMAIN Visible : \E ok \in BOOLEAN :
    OnDropToCollectionOn(Visible[i].id, ok, TabsBudget)

SaveCurrentTabs ==
  \E i \in DOMAIN Visible : \E windowTabs \in WindowTabLists(MaxWindowTabs) :
    \E oks \in [DOMAIN windowTabs -> BOOLEAN] :
      SaveCurrentTabsOf(Visible[i].id, windowTabs, oks, TabsBudget)

DeleteTab ==
  \E t \in VisibleTabs : \E ok \in BOOLEAN : DeleteTabOf(t.collectionId, t.tabId, ok)

NextTabs ==
  \/ OnMounted
  \/ OnDragStart
  \/ OnDragStartOpenTab
  \/ OnTabDrop
  \/ OnDropToCollection
  \/ DeleteTab
  \/ OnDragEnd

SpecTabs == InitTabs /\ [][NextTabs]_vars

\* SpecSave: the same, with saveCurrentTabs
NextSave ==
  \/ OnMounted
  \/ OnDragStart
  \/ OnDragStartOpenTab
  \/ OnTabDrop
  \/ OnDropToCollection
  \/ SaveCurrentTabs
  \/ DeleteTab
  \/ OnDragEnd

SpecSave == InitTabs /\ [][NextSave]_vars

----------------------------------------------------------------------------
(* App.vue: dragging groups *)

\* onGroupDragStart(groupId)
OnGroupDragStartOf(groupId) ==
  /\ ~isLoading
  /\ lastHandler' = Ran("onGroupDragStart", NoUrl)
  /\ draggedGroup' = groupId
  /\ lastCalls' = <<>>
  /\ alerts' = 0
  /\ UNCHANGED <<storeVars, rootFolderId, mirrorVars, isLoading, paneVars,
                 editVars, draggedTab, draggedOpenTab, dragOverCollectionId,
                 draggedCollection, dragOverCollectionForSort, dragOverTabId,
                 dragOverGroupId>>

OnGroupDragStart == \E i \in DOMAIN groups : OnGroupDragStartOf(groups[i].id)

\* onGroupDragOver(groupId)
OnGroupDragOverOn(groupId) ==
  /\ ~isLoading
  /\ lastHandler' = Ran("onGroupDragOver", NoUrl)
  /\ dragOverGroupId' = IF draggedGroup = Null \/ draggedGroup = groupId
                        THEN dragOverGroupId ELSE groupId
  /\ lastCalls' = <<>>
  /\ alerts' = 0
  /\ UNCHANGED <<storeVars, rootFolderId, mirrorVars, isLoading, paneVars,
                 editVars, draggedTab, draggedOpenTab, dragOverCollectionId,
                 draggedCollection, dragOverCollectionForSort, dragOverTabId,
                 draggedGroup>>

OnGroupDragOver == \E i \in DOMAIN groups : OnGroupDragOverOn(groups[i].id)

\* moveGroupToIndex(groupId, index), resolving: the possible results
\* [id, tree, nextId] (id: the root folder); none when bookmarks.move rejects
MoveGroupToIndex(cache, t, nid, groupId, index) ==
  UNION {IF BmExists(r.tree, groupId)
         THEN {[id |-> r.id, tree |-> moved, nextId |-> r.nextId] :
                 moved \in BmMoveOutcomes(r.tree, groupId, r.id, index)}
         ELSE {} : r \in GetOrCreateRootFolder(cache, t, nid)}

\* onGroupDrop(targetGroupId); ok: the calls of moveGroupToIndex resolve
OnGroupDropOn(targetGroupId, ok) ==
  /\ ~isLoading
  /\ lastHandler' = Ran("onGroupDrop", NoUrl)
  /\ IF draggedGroup = Null \/ draggedGroup = targetGroupId
     THEN /\ lastCalls' = <<>>
          /\ UNCHANGED <<tree, nextId, rootFolderId, groups>>
     ELSE LET sourceIndex == FindIndex(groups, LAMBDA g : g.id = draggedGroup)
              targetIndex == FindIndex(groups, LAMBDA g : g.id = targetGroupId)
              movedGroupId == draggedGroup
              results == MoveGroupToIndex(rootFolderId, tree, nextId,
                                          movedGroupId, targetIndex)
          IN  IF sourceIndex > -1 /\ targetIndex > -1
              THEN /\ groups' = MoveTo(groups, sourceIndex, targetIndex)
                   /\ IF ok /\ results # {}
                      THEN /\ \E r \in results :
                                /\ tree' = r.tree
                                /\ nextId' = r.nextId
                                /\ rootFolderId' = r.id
                           /\ lastCalls' = <<Call("moveGroupToIndex", movedGroupId,
                                                  Null, targetIndex, <<>>, TRUE)>>
                      ELSE /\ lastCalls' = <<Call("moveGroupToIndex", movedGroupId,
                                                  Null, targetIndex, <<>>, FALSE)>>
                           /\ UNCHANGED <<tree, nextId, rootFolderId>>
              ELSE /\ lastCalls' = <<>>
                   /\ UNCHANGED <<tree, nextId, rootFolderId, groups>>
  /\ draggedGroup' = Null
  /\ dragOverGroupId' = Null
  /\ alerts' = 0
  /\ UNCHANGED <<uiStates, sidebarState, collections, selectedGroupId,
                 isLoading, paneVars, editVars, draggedTab, draggedOpenTab,
                 dragOverCollectionId, draggedCollection,
                 dragOverCollectionForSort, dragOverTabId>>

OnGroupDrop ==
  \E i \in DOMAIN groups : \E ok \in BOOLEAN : OnGroupDropOn(groups[i].id, ok)

\* onGroupDragEnd
OnGroupDragEnd ==
  /\ ~isLoading
  /\ lastHandler' = Ran("onGroupDragEnd", NoUrl)
  /\ draggedGroup' = Null
  /\ dragOverGroupId' = Null
  /\ lastCalls' = <<>>
  /\ alerts' = 0
  /\ UNCHANGED <<storeVars, rootFolderId, mirrorVars, isLoading, paneVars,
                 editVars, draggedTab, draggedOpenTab, dragOverCollectionId,
                 draggedCollection, dragOverCollectionForSort, dragOverTabId>>

----------------------------------------------------------------------------
(* SpecGroups: the order of groups.  The stores are those a first session  *)
(* leaves that created n groups, 4 .. 3 + n.                               *)

SeedGroupsTree(n) ==
  [f \in {OtherBookmarksId} \cup (3 .. 3 + n) |->
     IF f = OtherBookmarksId THEN <<Node(3, ROOT_FOLDER_NAME, NoUrl)>>
     ELSE IF f = 3 THEN [i \in 1..n |-> Node(3 + i, <<"a">>, NoUrl)]
     ELSE <<>>]

InitGroups ==
  /\ \E n \in 0..MaxSeedGroups :
       /\ tree = SeedGroupsTree(n)
       /\ nextId = 4 + n
  /\ uiStates = NoUIStates
  /\ sidebarState = NoState
  /\ Constructed

NextGroups ==
  \/ OnMounted
  \/ Reload
  \/ OnGroupDragStart
  \/ OnGroupDrop
  \/ OnGroupDragEnd

SpecGroups == InitGroups /\ [][NextGroups]_vars

----------------------------------------------------------------------------
(* App.vue: rename in place *)

\* startEditGroup(group)
StartEditGroup ==
  /\ ~isLoading
  /\ lastHandler' = Ran("startEditGroup", NoUrl)
  /\ \E i \in DOMAIN groups :
       /\ editingGroupId' = groups[i].id
       /\ editingName' = groups[i].name
  /\ lastCalls' = <<>>
  /\ alerts' = 0
  /\ UNCHANGED <<storeVars, rootFolderId, mirrorVars, isLoading, paneVars,
                 editingCollectionId, editingTabId, dragVars>>

\* startEditCollection(collection)
StartEditCollection ==
  /\ ~isLoading
  /\ lastHandler' = Ran("startEditCollection", NoUrl)
  /\ \E i \in DOMAIN Visible :
       /\ editingCollectionId' = Visible[i].id
       /\ editingName' = Visible[i].name
  /\ lastCalls' = <<>>
  /\ alerts' = 0
  /\ UNCHANGED <<storeVars, rootFolderId, mirrorVars, isLoading, paneVars,
                 editingGroupId, editingTabId, dragVars>>

\* startEditTab(collectionId, tab)
StartEditTab ==
  /\ ~isLoading
  /\ lastHandler' = Ran("startEditTab", NoUrl)
  /\ \E i \in DOMAIN Visible : \E j \in DOMAIN Visible[i].tabs :
       /\ editingTabId' = Visible[i].tabs[j].id
       /\ editingName' = Visible[i].tabs[j].title
  /\ lastCalls' = <<>>
  /\ alerts' = 0
  /\ UNCHANGED <<storeVars, rootFolderId, mirrorVars, isLoading, paneVars,
                 editingGroupId, editingCollectionId, dragVars>>

\* texts typed into an edit box
EditTexts == {<<>>, <<" ">>, <<" ", "b">>}

\* v-model="editingName" of the edit box of the item being renamed
OnEditInput ==
  /\ ~isLoading
  /\ lastHandler' = Ran("input", NoUrl)
  /\ editingGroupId # Null \/ editingCollectionId # Null \/ editingTabId # Null
  /\ \E text \in EditTexts : editingName' = text
  /\ lastCalls' = <<>>
  /\ alerts' = 0
  /\ UNCHANGED <<storeVars, rootFolderId, mirrorVars, isLoading, paneVars,
                 editingGroupId, editingCollectionId, editingTabId, dragVars>>

\* saveGroupName with the name set before the adapter call and not set back
SaveGroupNameOfOptimistic(groupId, ok) ==
  /\ ~isLoading
  /\ lastHandler' = Ran("saveGroupName", NoUrl)
  /\ IF Trim(editingName) # <<>>
     THEN /\ groups' = [i \in DOMAIN groups |->
                          IF groups[i].id = groupId
                          THEN [groups[i] EXCEPT !.name = Trim(editingName)]
                          ELSE groups[i]]
          /\ IF ok /\ BmExists(tree, groupId)
             THEN /\ tree' = BmUpdate(tree, groupId, Trim(editingName))
                  /\ lastCalls' = <<Call("updateGroup", groupId, Null, -1,
                                         Trim(editingName), TRUE)>>
             ELSE /\ lastCalls' = <<Call("updateGroup", groupId, Null, -1,
                                         Trim(editingName), FALSE)>>
                  /\ UNCHANGED tree
     ELSE /\ lastCalls' = <<>>
          /\ UNCHANGED <<tree, groups>>
  /\ editingGroupId' = Null
  /\ alerts' = 0
  /\ UNCHANGED <<nextId, uiStates, sidebarState, rootFolderId, collections,
                 selectedGroupId, isLoading, paneVars, editingCollectionId,
                 editingTabId, editingName, dragVars>>

\* saveGroupName(group), group.id = groupId; ok: bookmarks.update resolves
SaveGroupNameOf(groupId, ok) ==
  /\ ~isLoading
  /\ lastHandler' = Ran("saveGroupName", NoUrl)
  /\ IF Trim(editingName) # <<>>
     THEN IF ok /\ BmExists(tree, groupId)
          THEN /\ tree' = BmUpdate(tree, groupId, Trim(editingName))
               /\ groups' = [i \in DOMAIN groups |->
                               IF groups[i].id = groupId
                               THEN [groups[i] EXCEPT !.name = Trim(editingName)]
                               ELSE groups[i]]
               /\ lastCalls' = <<Call("updateGroup", groupId, Null, -1,
                                      Trim(editingName), TRUE)>>
          ELSE /\ lastCalls' = <<Call("updateGroup", groupId, Null, -1,
                                      Trim(editingName), FALSE)>>
               /\ UNCHANGED <<tree, groups>>
     ELSE /\ lastCalls' = <<>>
          /\ UNCHANGED <<tree, groups>>
  /\ editingGroupId' = Null
  /\ alerts' = 0
  /\ UNCHANGED <<nextId, uiStates, sidebarState, rootFolderId, collections,
                 selectedGroupId, isLoading, paneVars, editingCollectionId,
                 editingTabId, editingName, dragVars>>

\* Enter or blur in the edit box of the group being renamed
SaveGroupName ==
  \E i \in DOMAIN groups : \E ok \in BOOLEAN :
    editingGroupId = groups[i].id /\ SaveGroupNameOf(groups[i].id, ok)

\* saveCollectionName(collection), collection.id = collectionId
SaveCollectionNameOf(collectionId, ok) ==
  /\ ~isLoading
  /\ lastHandler' = Ran("saveCollectionName", NoUrl)
  /\ IF Trim(editingName) # <<>>
     THEN IF ok /\ BmExists(tree, collectionId)
          THEN /\ tree' = BmUpdate(tree, collectionId, Trim(editingName))
               /\ collections' =
                    [i \in DOMAIN collections |->
                       IF collections[i].id = collectionId
                       THEN [collections[i] EXCEPT !.name = Trim(editingName)]
                       ELSE collections[i]]
               /\ lastCalls' = <<Call("updateCollection", collectionId, Null, -1,
                                      Trim(editingName), TRUE)>>
          ELSE /\ lastCalls' = <<Call("updateCollection", collectionId, Null, -1,
                                      Trim(editingName), FALSE)>>
               /\ UNCHANGED <<tree, collections>>
     ELSE /\ lastCalls' = <<>>
          /\ UNCHANGED <<tree, collections>>
  /\ editingCollectionId' = Null
  /\ alerts' = 0
  /\ UNCHANGED <<nextId, uiStates, sidebarState, rootFolderId, groups,
                 selectedGroupId, isLoading, paneVars, editingGroupId,
                 editingTabId, editingName, dragVars>>

SaveCollectionName ==
  \E i \in DOMAIN Visible : \E ok \in BOOLEAN :
    editingCollectionId = Visible[i].id /\ SaveCollectionNameOf(Visible[i].id, ok)

\* saveTabName(collectionId, tabId)
SaveTabNameOf(collectionId, tabId, ok) ==
  /\ ~isLoading
  /\ lastHandler' = Ran("saveTabName", NoUrl)
  /\ IF /\ HasCollection(collectionId)
        /\ Some(TabsOf(collectionId), LAMBDA t : t.id = tabId)
        /\ Trim(editingName) # <<>>
     THEN IF ok /\ BmExists(tree, tabId)
          THEN /\ tree' = BmUpdate(tree, tabId, Trim(editingName))
               /\ collections' =
                    WithTabs(collections, collectionId,
                             [j \in DOMAIN TabsOf(collectionId) |->
                                IF TabsOf(collectionId)[j].id = tabId
                                THEN [TabsOf(collectionId)[j]
                                        EXCEPT !.title = Trim(editingName)]
                                ELSE TabsOf(collectionId)[j]])
               /\ lastCalls' = <<Call("bookmarks.update", tabId, Null, -1,
                                      Trim(editingName), TRUE)>>
          ELSE /\ lastCalls' = <<Call("bookmarks.update", tabId, Null, -1,
                                      Trim(editingName), FALSE)>>
               /\ UNCHANGED <<tree, collections>>
     ELSE /\ lastCalls' = <<>>
          /\ UNCHANGED <<tree, collections>>
  /\ editingTabId' = Null
  /\ alerts' = 0
  /\ UNCHANGED <<nextId, uiStates, sidebarState, rootFolderId, groups,
                 selectedGroupId, isLoading, paneVars, editingGroupId,
                 editingCollectionId, editingName, dragVars>>

SaveTabName ==
  \E i \in DOMAIN Visible : \E j \in DOMAIN Visible[i].tabs : \E ok \in BOOLEAN :
    /\ editingTabId = Visible[i].tabs[j].id
    /\ SaveTabNameOf(Visible[i].id, Visible[i].tabs[j].id, ok)

----------------------------------------------------------------------------
(* App.vue: the drag-over handlers *)

\* onTabDragOver(collectionId, tabId)
OnTabDragOver ==
  /\ ~isLoading
  /\ lastHandler' = Ran("onTabDragOver", NoUrl)
  /\ \E i \in DOMAIN Visible : \E j \in DOMAIN Visible[i].tabs :
       LET collectionId == Visible[i].id
           tabId == Visible[i].tabs[j].id
       IN  IF draggedOpenTab # None
           THEN /\ dragOverCollectionId' = collectionId
                /\ UNCHANGED dragOverTabId
           ELSE /\ dragOverTabId' =
                     IF draggedTab # None /\ draggedTab.tabId # tabId
                     THEN tabId ELSE dragOverTabId
                /\ UNCHANGED dragOverCollectionId
  /\ lastCalls' = <<>>
  /\ alerts' = 0
  /\ UNCHANGED <<storeVars, rootFolderId, mirrorVars, isLoading, paneVars,
                 editVars, draggedTab, draggedOpenTab, draggedCollection,
                 dragOverCollectionForSort, draggedGroup, dragOverGroupId>>

\* onCollectionDragOver(collectionId): the card's dragover listener calls it
\* when draggedCollection is set
OnCollectionDragOver ==
  /\ ~isLoading
  /\ lastHandler' = Ran("onCollectionDragOver", NoUrl)
  /\ draggedCollection # Null
  /\ \E i \in DOMAIN Visible :
       dragOverCollectionForSort' =
         IF draggedCollection = Visible[i].id
         THEN dragOverCollectionForSort ELSE Visible[i].id
  /\ lastCalls' = <<>>
  /\ alerts' = 0
  /\ UNCHANGED <<storeVars, rootFolderId, mirrorVars, isLoading, paneVars,
                 editVars, draggedTab, draggedOpenTab, dragOverCollectionId,
                 draggedCollection, dragOverTabId, draggedGroup, dragOverGroupId>>

\* onDragOverCollection(collectionId): called when draggedCollection is not set
OnDragOverCollection ==
  /\ ~isLoading
  /\ lastHandler' = Ran("onDragOverCollection", NoUrl)
  /\ draggedCollection = Null
  /\ \E i \in DOMAIN Visible : dragOverCollectionId' = Visible[i].id
  /\ lastCalls' = <<>>
  /\ alerts' = 0
  /\ UNCHANGED <<storeVars, rootFolderId, mirrorVars, isLoading, paneVars,
                 editVars, draggedTab, draggedOpenTab, draggedCollection,
                 dragOverCollectionForSort, dragOverTabId, draggedGroup,
                 dragOverGroupId>>

----------------------------------------------------------------------------
(* SpecEdit and SpecDrag: renames and drags on one page.  The stores are   *)
(* those a first session leaves that created two groups (4, 5), two        *)
(* collections (6, 7) in the first and a tab (8) in the first collection.  *)

SeedPageTree ==
  (OtherBookmarksId :> <<Node(3, ROOT_FOLDER_NAME, NoUrl)>>)
  @@ (3 :> <<Node(4, <<"a">>, NoUrl), Node(5, <<"a">>, NoUrl)>>)
  @@ (4 :> <<Node(6, <<"a">>, NoUrl), Node(7, <<"a">>, NoUrl)>>)
  @@ (5 :> <<>>)
  @@ (6 :> <<Node(8, <<"A">>, <<"https://", "a">>)>>)
  @@ (7 :> <<>>)

InitPage ==
  /\ tree = SeedPageTree
  /\ nextId = 9
  /\ uiStates = NoUIStates
  /\ sidebarState = NoState
  /\ Constructed

NextEdit ==
  \/ OnMounted
  \/ StartEditGroup
  \/ StartEditCollection
  \/ StartEditTab
  \/ OnEditInput
  \/ SaveGroupName
  \/ SaveCollectionName
  \/ SaveTabName

SpecEdit == InitPage /\ [][NextEdit]_vars

NextDrag ==
  \/ OnMounted
  \/ OnDragStart
  \/ OnDragStartOpenTab
  \/ OnCollectionDragStart
  \/ OnGroupDragStart
  \/ OnTabDragOver
  \/ OnCollectionDragOver
  \/ OnDragOverCollection
  \/ OnGroupDragOver
  \/ OnDragEnd
  \/ OnGroupDragEnd

SpecDrag == InitPage /\ [][NextDrag]_vars

----------------------------------------------------------------------------
(* SpecUIState: the UI-state store on its own, with local storage         *)
(* available: updateCollectionUIState and removeCollectionUIState called   *)
(* one at a time with ids and partial states drawn from small sets         *)

UIStateIds == {5, 6}

\* the values of Partial<CollectionUIState>: any of the two fields
PartialUIStates ==
  {[f \in D |-> IF f = "expanded" THEN e ELSE o] :
     D \in SUBSET {"expanded", "order"}, e \in BOOLEAN, o \in 0..MaxSavedOrder}

\* the names of the fields a partial state gives
FieldsOf(state) ==
  (IF "expanded" \in DOMAIN state THEN <<"expanded">> ELSE <<>>)
  \o (IF "order" \in DOMAIN state THEN <<"order">> ELSE <<>>)

\* updateCollectionUIState(collectionId, state); the call is logged with the
\* fields given and, as index, the order given
UpdateCollectionUIStateOf(collectionId, state) ==
  /\ uiStates' = UpdateCollectionUIState(uiStates, collectionId, state)
  /\ lastHandler' = Ran("updateCollectionUIState", NoUrl)
  /\ lastCalls' = <<Call("updateCollectionUIState", collectionId, Null,
                         IF "order" \in DOMAIN state THEN state.order ELSE -1,
                         FieldsOf(state), TRUE)>>
  /\ alerts' = 0
  /\ UNCHANGED <<tree, nextId, sidebarState, rootFolderId, mirrorVars,
                 isLoading, paneVars, editVars, dragVars>>

UpdateUIState ==
  \E collectionId \in UIStateIds : \E state \in PartialUIStates :
    UpdateCollectionUIStateOf(collectionId, state)

\* removeCollectionUIState(collectionId)
RemoveUIState ==
  \E collectionId \in UIStateIds :
    /\ uiStates' = RemoveCollectionUIState(uiStates, collectionId)
    /\ lastHandler' = Ran("removeCollectionUIState", NoUrl)
    /\ lastCalls' = <<Call("removeCollectionUIState", collectionId, Null, -1,
                           <<>>, TRUE)>>
    /\ alerts' = 0
    /\ UNCHANGED <<tree, nextId, sidebarState, rootFolderId, mirrorVars,
                   isLoading, paneVars, editVars, dragVars>>

NextUIState ==
  \/ UpdateUIState
  \/ RemoveUIState

SpecUIState == Init /\ [][NextUIState]_vars

----------------------------------------------------------------------------
(* What a reload would show: the mirror a successful startup builds from   *)
(* the stores as they are now                                              *)

ReloadedGroups ==
  IF rootFolderId # Null /\ rootFolderId \in DOMAIN tree
  THEN LoadGroups(tree, rootFolderId) ELSE <<>>

ReloadedCollections ==
  IF rootFolderId # Null /\ rootFolderId \in DOMAIN tree
  THEN CollectionsWithState(uiStates, LoadCollections(tree, rootFolderId))
  ELSE <<>>

GroupIds == Range(Ids(groups))

CollectionIds == Range(Ids(collections))

\* the ids of the collections of group g, in the order of the list cs
OrderIn(cs, g) == Ids(CurrentCollections(cs, g))

----------------------------------------------------------------------------
(* C1 *)

\* C1: a deleteGroup(g) that was confirmed and whose removeTree resolved
\* leaves no collection of g in the mirror (so none on screen), g out of the
\* group list, and the collections of every other group exactly as before.
C1_DeleteGroupRemovesItsCollections ==
  [][\A g \in GroupIds :
       DeleteGroupOf(g, TRUE, TRUE) =>
         /\ \A i \in DOMAIN collections' : collections'[i].groupId # g
         /\ CurrentCollections(collections', g) = <<>>
         /\ \A i \in DOMAIN groups' : groups'[i].id # g
         /\ \A h \in GroupIds \ {g} :
              CurrentCollections(collections', h) = CurrentCollections(collections, h)
         /\ g \notin DOMAIN tree']_vars

\* the first group (4), whose collection (5) had a UI state, has just been
\* deleted, and the collection (7) of the other group (6) is still there
C1_Witness ==
  /\ lastCalls = <<Call("deleteGroup", 4, Null, -1, <<>>, TRUE)>>
  /\ 5 \in DOMAIN uiStates
  /\ Ids(groups) = <<6>>
  /\ Ids(collections) = <<7>>

----------------------------------------------------------------------------
(* C2, C3 *)

\* C2 as claimed: no collection holds two tabs with the same url.
C2_NoDuplicateUrls ==
  \A i \in DOMAIN collections :
    \A j, k \in DOMAIN collections[i].tabs :
      j # k => collections[i].tabs[j].url # collections[i].tabs[k].url

\* C3: dropping an open tab whose url a tab of the target collection already
\* has, on the collection's card or on one of its tabs, changes no tab list,
\* issues no adapter call (no bookmark is created) and clears the open-tab
\* marker.  A drop that did add the tab leaves the collection with a tab of
\* that url, so the same open tab dropped again is such a drop.
C3_DropOfPresentUrlIsNoOp ==
  [][\A c \in CollectionIds : \A ok \in BOOLEAN :
       (/\ draggedOpenTab # None
        /\ \/ OnDropToCollectionOn(c, ok, TabsBudget)
           \/ \E t \in VisibleTabs : OnTabDropOn(c, t.tabId, ok, TabsBudget))
       => /\ HasUrl(TabsOf(c), draggedOpenTab.url)
             => /\ collections' = collections
                /\ tree' = tree
                /\ nextId' = nextId
                /\ lastCalls' = <<>>
                /\ draggedOpenTab' = None
          /\ (lastCalls' # <<>> /\ lastCalls'[1].ok)
             => \E i \in DOMAIN collections' :
                  /\ collections'[i].id = c
                  /\ Len(collections'[i].tabs) = Len(TabsOf(c)) + 1
                  /\ HasUrl(collections'[i].tabs, draggedOpenTab.url)]_vars

\* a drop handler has just been handed the open tab https://a, which is
\* valid, and issued no call: a collection already had a tab with that url
C3_Witness ==
  /\ lastHandler \in {Ran("onDropToCollection", <<"https://", "a">>),
                      Ran("onTabDrop", <<"https://", "a">>)}
  /\ lastCalls = <<>>
  /\ draggedOpenTab = None
  /\ \E i \in DOMAIN collections : HasUrl(collections[i].tabs, <<"https://", "a">>)

----------------------------------------------------------------------------
(* C4, C5 *)

\* the last handler was a collection drop that reordered the list
AfterCollectionReorder ==
  Len(lastCalls) = 1 /\ lastCalls[1].op = "saveCollectionOrder"

\* a reload shows the collections of every group of the mirror's list in the
\* mirror's order and, whatever group is selected, the collections the
\* mirror shows for it in the order the mirror shows them
ReloadShowsMirrorOrder ==
  /\ \A g \in GroupIds : OrderIn(ReloadedCollections, g) = OrderIn(collections, g)
  /\ SelectSeq(OrderIn(ReloadedCollections, selectedGroupId),
               LAMBDA c : c \in CollectionIds)
       = OrderIn(collections, selectedGroupId)

C5_DropSecondOnFirst ==
  [][\A g \in GroupIds : \A c1, c2 \in CollectionIds :
       (/\ OrderIn(collections, g) = <<c1, c2>>
        /\ draggedCollection = c2
        /\ OnCollectionDropOn(c1))
       => /\ OrderIn(collections', g) = <<c2, c1>>
          /\ uiStates'[c2].order = 0
          /\ uiStates'[c1].order = 1]_vars

----------------------------------------------------------------------------
(* C6 *)

\* C6: dropping group S onto a different group T of the list issues exactly
\* one adapter call, moveGroupToIndex(S, i) with i the index T had, and
\* leaves S at index i of the list, the other groups in their order.
C6_GroupDropMovesToTargetIndex ==
  [][\A S \in GroupIds : \A T \in GroupIds \ {S} : \A ok \in BOOLEAN :
       (draggedGroup = S /\ OnGroupDropOn(T, ok))
       => LET i == FindIndex(groups, LAMBDA g : g.id = T)
          IN  /\ Len(lastCalls') = 1
              /\ lastCalls'[1].op = "moveGroupToIndex"
              /\ lastCalls'[1].id = S
              /\ lastCalls'[1].index = i
              /\ Len(groups') = Len(groups)
              /\ At(groups', i).id = S
              /\ SelectSeq(groups', LAMBDA g : g.id # S)
                   = SelectSeq(groups, LAMBDA g : g.id # S)]_vars

\* a group of three was dropped on the last one and is the last now, though
\* the adapter call failed
C6_Witness ==
  /\ lastHandler = Ran("onGroupDrop", NoUrl)
  /\ Len(groups) = 3
  /\ lastCalls = <<Call("moveGroupToIndex", groups[3].id, Null, 2, <<>>, FALSE)>>
  /\ Ids(groups) # Ids(ReloadedGroups)

----------------------------------------------------------------------------
(* C7, C8 *)

IsBlank(text) == \A i \in DOMAIN text : text[i] = " "

\* C7: committing a rename of a group, a collection or a tab while the edit
\* text is empty or blank leaves every name and title (in the mirror and in
\* the bookmark store) as it was, issues no adapter update call and sets
\* the editing id of that kind to null.
C7_BlankRenameIsDiscarded ==
  [][IsBlank(editingName) =>
       /\ \A g \in GroupIds : \A ok \in BOOLEAN :
            SaveGroupNameOf(g, ok)
            => /\ groups' = groups /\ tree' = tree /\ lastCalls' = <<>>
               /\ editingGroupId' = Null
       /\ \A c \in CollectionIds : \A ok \in BOOLEAN :
            SaveCollectionNameOf(c, ok)
            => /\ collections' = collections /\ tree' = tree /\ lastCalls' = <<>>
               /\ editingCollectionId' = Null
       /\ \A t \in VisibleTabs : \A ok \in BOOLEAN :
            SaveTabNameOf(t.collectionId, t.tabId, ok)
            => /\ collections' = collections /\ tree' = tree /\ lastCalls' = <<>>
               /\ editingTabId' = Null]_vars

\* a rename has just been committed with a text of one blank
C7_Witness ==
  /\ lastHandler.name \in {"saveGroupName", "saveCollectionName", "saveTabName"}
  /\ editingName = <<" ">>
  /\ lastCalls = <<>>
  /\ editingGroupId = Null /\ editingCollectionId = Null /\ editingTabId = Null

\* C8 as claimed: at most one of the four drag markers is set.
C8_AtMostOneDragMarker ==
  Cardinality({m \in {"draggedTab", "draggedOpenTab", "draggedCollection",
                      "draggedGroup"} :
                 \/ m = "draggedTab" /\ draggedTab # None
                 \/ m = "draggedOpenTab" /\ draggedOpenTab # None
                 \/ m = "draggedCollection" /\ draggedCollection # Null
                 \/ m = "draggedGroup" /\ draggedGroup # Null}) <= 1

----------------------------------------------------------------------------
(* C9 *)

\* C9: after startup every collection of the mirror has the id of a group of
\* the mirror as groupId; and what a load reads from the bookmark tree gives
\* each collection the id of the loaded group folder that is its parent.
C9_GroupIdReferencesGroup ==
  ~isLoading =>
    /\ \A i \in DOMAIN collections : collections[i].groupId \in GroupIds
    /\ \A i \in DOMAIN ReloadedCollections :
         /\ ReloadedCollections[i].groupId \in Range(Ids(ReloadedGroups))
         /\ BmParent(tree, ReloadedCollections[i].id) = ReloadedCollections[i].groupId

----------------------------------------------------------------------------
(* C10 *)

----------------------------------------------------------------------------
(* C11 *)

----------------------------------------------------------------------------
(* C12 *)

\* the tab the marker draggedTab designates is in collection a of the mirror
\* and collection b has a tab with its url
DraggedUrlIn(a, b) ==
  \E i, j \in DOMAIN collections :
    /\ collections[i].id = a
    /\ collections[j].id = b
    /\ \E m \in DOMAIN collections[i].tabs : \E n \in DOMAIN collections[j].tabs :
         /\ collections[i].tabs[m].id = draggedTab.tabId
         /\ collections[j].tabs[n].url = collections[i].tabs[m].url

\* C12: a tab dragged from collection A and dropped on another collection B,
\* on its card or on one of its tabs, when B has a tab with the dragged tab's
\* url: no adapter call is issued, the bookmark tree and every tab list stay
\* as they were, and the tab drag marker is cleared.
C12_MoveOfPresentUrlIsNoOp ==
  [][\A b \in CollectionIds : \A ok \in BOOLEAN :
       (/\ draggedOpenTab = None
        /\ draggedTab # None
        /\ draggedTab.collectionId # b
        /\ DraggedUrlIn(draggedTab.collectionId, b)
        /\ \/ OnDropToCollectionOn(b, ok, TabsBudget)
           \/ \E t \in VisibleTabs :
                t.collectionId = b /\ OnTabDropOn(b, t.tabId, ok, TabsBudget))
       => /\ lastCalls' = <<>>
          /\ tree' = tree
          /\ collections' = collections
          /\ draggedTab' = None]_vars

\* tab 7 of collection 5 was dropped on collection 6, which holds tab 8 with
\* the same url; both are where they were and no call was issued
C12_Witness ==
  /\ lastHandler.name \in {"onDropToCollection", "onTabDrop"}
  /\ lastHandler.tab = [collectionId |-> 5, tabId |-> 7]
  /\ lastCalls = <<>>
  /\ draggedTab = None
  /\ HasCollection(5) /\ HasCollection(6)
  /\ \E m \in DOMAIN TabsOf(5) : \E n \in DOMAIN TabsOf(6) :
       /\ TabsOf(5)[m].id = 7
       /\ TabsOf(6)[n].id = 8
       /\ TabsOf(6)[n].url = TabsOf(5)[m].url

----------------------------------------------------------------------------
(* C13 *)

\* the tab lists of collection cid before and after the step
TabsNow(cid) == TabsOf(cid)
TabsNext(cid) == (CHOOSE c \in Range(collections') : c.id = cid).tabs

\* the tab ids of a tab list, in its order
TabIds(tabs) == [k \in DOMAIN tabs |-> tabs[k].id]

\* the step moved the tab at position m of a (1-based) into b at position p
MovedAcross(a, b, m, p) ==
  /\ Ids(collections') = Ids(collections)
  /\ TabsNext(a) = [k \in 1..(Len(TabsNow(a)) - 1) |->
                      IF k < m THEN TabsNow(a)[k] ELSE TabsNow(a)[k + 1]]
  /\ TabsNext(b) = [k \in 1..(Len(TabsNow(b)) + 1) |->
                      IF k < p THEN TabsNow(b)[k]
                      ELSE IF k = p THEN TabsNow(a)[m] ELSE TabsNow(b)[k - 1]]
  /\ Len(TabsNext(a)) + Len(TabsNext(b)) = Len(TabsNow(a)) + Len(TabsNow(b))
  /\ \A c \in CollectionIds \ {a, b} : TabsNext(c) = TabsNow(c)

\* C13: a tab of collection A dropped on another collection B that has no
\* tab with its url: the handler issues exactly moveTab(tab, B); when the call
\* succeeds the bookmark is under B's folder and in the mirror the tab has
\* left A and is in B exactly once, at the hovered tab's index for a drop on
\* a tab and at the end for a drop on the card, the other tabs in their
\* order and the number of tabs of A and B together as before; when the call
\* fails the tree and both lists are unchanged.
C13_MoveAcrossCollections ==
  [][\A b \in CollectionIds : \A ok \in BOOLEAN :
     \A m \in 1..MaxNodes :
       (/\ draggedOpenTab = None
        /\ draggedTab # None
        /\ draggedTab.collectionId # b
        /\ HasCollection(draggedTab.collectionId)
        /\ m \in DOMAIN TabsOf(draggedTab.collectionId)
        /\ TabsOf(draggedTab.collectionId)[m].id = draggedTab.tabId
        /\ \A n \in DOMAIN TabsOf(b) :
             TabsOf(b)[n].url # TabsOf(draggedTab.collectionId)[m].url)
       => LET a == draggedTab.collectionId
              tabId == draggedTab.tabId
              Done(p) ==
                /\ Len(lastCalls') = 1
                /\ lastCalls'[1].op = "moveTab"
                /\ lastCalls'[1].id = tabId
                /\ lastCalls'[1].to = b
                /\ IF lastCalls'[1].ok
                   THEN /\ MovedAcross(a, b, m, p)
                        /\ tabId \in Range(TabIds(tree'[b]))
                        /\ tabId \notin Range(TabIds(tree'[a]))
                   ELSE /\ collections' = collections
                        /\ tree' = tree
          IN  /\ OnDropToCollectionOn(b, ok, TabsBudget)
                 => Done(Len(TabsOf(b)) + 1)
              /\ \A p \in DOMAIN TabsOf(b) :
                   OnTabDropOn(b, TabsOf(b)[p].id, ok, TabsBudget) => Done(p)]_vars

\* tab 7 was dragged from collection 5 and moved by the adapter to collection
\* 6, whose mirror list now has it before tab 8, on which it was dropped
C13_Witness ==
  /\ lastHandler.name = "onTabDrop"
  /\ lastHandler.tab = [collectionId |-> 5, tabId |-> 7]
  /\ lastCalls = <<Call("moveTab", 7, 6, -1, <<>>, TRUE)>>
  /\ HasCollection(5) /\ HasCollection(6)
  /\ TabIds(TabsOf(5)) = <<>>
  /\ TabIds(TabsOf(6)) = <<7, 8>>

----------------------------------------------------------------------------
(* C14 *)

\* the step put one new tab, for the open tab being dragged, into collection
\* c at position p (1-based) and its bookmark at the end of c's folder
AddedAt(c, p) ==
  LET new == TabsNext(c)[p]
  IN  /\ Ids(collections') = Ids(collections)
      /\ Len(TabsNext(c)) = Len(TabsNow(c)) + 1
      /\ \A k \in DOMAIN TabsNow(c) :
           TabsNext(c)[IF k < p THEN k ELSE k + 1] = TabsNow(c)[k]
      /\ new.url = draggedOpenTab.url
      /\ new.title = IF draggedOpenTab.title # <<>>
                     THEN draggedOpenTab.title ELSE draggedOpenTab.url
      /\ ~BmExists(tree, new.id)
      /\ tree' = [tree EXCEPT ![c] = Append(@, Node(new.id, new.title, new.url))]
      /\ \A d \in CollectionIds \ {c} : TabsNext(d) = TabsNow(d)

\* C14: an open tab with a valid url that no tab of the target collection has
\* is dropped on the collection: the handler issues exactly one
\* addTabToCollection; when it succeeds one bookmark is created in the
\* collection's folder and one tab is added to its mirror list, at the hovered
\* tab's index for a drop on a tab and at the end for a drop on the card, the
\* tabs it had in their order (an empty collection then has exactly that
\* tab).
C14_OpenTabDropAddsOneTab ==
  [][\A c \in CollectionIds : \A ok \in BOOLEAN :
       (/\ draggedOpenTab # None
        /\ IsValidTabUrl(draggedOpenTab.url)
        /\ \A n \in DOMAIN TabsOf(c) : TabsOf(c)[n].url # draggedOpenTab.url)
       => LET Done(p) ==
                /\ Len(lastCalls') = 1
                /\ lastCalls'[1].op = "addTabToCollection"
                /\ lastCalls'[1].to = c
                /\ lastCalls'[1].ok
                   => /\ AddedAt(c, p)
                      /\ TabsOf(c) = <<>> => Len(TabsNext(c)) = 1
          IN  /\ OnDropToCollectionOn(c, ok, TabsBudget)
                 => Done(Len(TabsOf(c)) + 1)
              /\ \A p \in DOMAIN TabsOf(c) :
                   OnTabDropOn(c, TabsOf(c)[p].id, ok, TabsBudget) => Done(p)]_vars

\* the open tab https://b was dropped on tab 7 of collection 5: the new tab 8
\* is in the list before it
C14_Witness ==
  /\ lastHandler = Ran("onTabDrop", <<"https://", "b">>)
  /\ Len(lastCalls) = 1
  /\ lastCalls[1].op = "addTabToCollection"
  /\ lastCalls[1].ok
  /\ HasCollection(5)
  /\ TabIds(TabsOf(5)) = <<8, 7>>
  /\ TabsOf(5)[1].url = <<"https://", "b">>

----------------------------------------------------------------------------
(* C15 *)

\* the tab ids a load of collection c reads from the tree t
LoadedTabIds(t, c) == TabIds(LoadTabsFromFolder(t, c))

\* C15: a tab dropped on a tab of its own collection issues no adapter call
\* and leaves the bookmark tree and the UI-state store as they were; in the
\* mirror the collection's list holds the same tabs, the dragged one at the
\* index the target had and the others in their order, every other list
\* unchanged; a load still reads the bookmark order, which the permuted list
\* differs from when it agreed with it before.  A tab dropped on the card of
\* its own collection changes neither the mirror nor the stores and issues no
\* call.
C15_SameCollectionDropIsLocal ==
  [][\A c \in CollectionIds : \A ok \in BOOLEAN :
       (/\ draggedOpenTab = None
        /\ draggedTab # None
        /\ draggedTab.collectionId = c)
       => /\ \A s, p \in DOMAIN TabsOf(c) :
               (/\ TabsOf(c)[s].id = draggedTab.tabId
                /\ OnTabDropOn(c, TabsOf(c)[p].id, ok, TabsBudget))
               => /\ lastCalls' = <<>>
                  /\ tree' = tree /\ nextId' = nextId /\ uiStates' = uiStates
                  /\ Ids(collections') = Ids(collections)
                  /\ \A d \in CollectionIds \ {c} : TabsNext(d) = TabsNow(d)
                  /\ Len(TabsNext(c)) = Len(TabsNow(c))
                  /\ Range(TabsNext(c)) = Range(TabsNow(c))
                  /\ TabsNext(c)[p] = TabsNow(c)[s]
                  /\ SelectSeq(TabsNext(c), LAMBDA t : t.id # draggedTab.tabId)
                       = SelectSeq(TabsNow(c), LAMBDA t : t.id # draggedTab.tabId)
                  /\ LoadedTabIds(tree', c) = LoadedTabIds(tree, c)
                  /\ (s # p /\ TabIds(TabsNow(c)) = LoadedTabIds(tree, c))
                     => TabIds(TabsNext(c)) # LoadedTabIds(tree', c)
          /\ OnDropToCollectionOn(c, ok, TabsBudget)
             => /\ lastCalls' = <<>>
                /\ UNCHANGED <<storeVars, mirrorVars>>]_vars

\* tab 7 of collection 5 was dropped on tab 8 of the same collection: the
\* mirror shows 8 before 7, the folder still holds 7 before 8
C15_Witness ==
  /\ lastHandler.name = "onTabDrop"
  /\ lastHandler.tab = [collectionId |-> 5, tabId |-> 7]
  /\ lastCalls = <<>>
  /\ HasCollection(5)
  /\ TabIds(TabsOf(5)) = <<8, 7>>
  /\ LoadedTabIds(tree, 5) = <<7, 8>>

----------------------------------------------------------------------------
(* C16 *)

\* the group drop of S on T whose moveGroupToIndex failed: the list is
\* reordered all the same, the tree is as it was, no alert is shown and the
\* group markers are cleared
FailedGroupDropKeepsReorder(S, T) ==
  /\ At(groups', FindIndex(groups, LAMBDA g : g.id = T)).id = S
  /\ SelectSeq(groups', LAMBDA g : g.id # S) = SelectSeq(groups, LAMBDA g : g.id # S)
  /\ tree' = tree
  /\ alerts' = 0
  /\ draggedGroup' = Null
  /\ dragOverGroupId' = Null

\* the group order a load reads from the tree after the step
ReloadedGroupIdsNext ==
  IF rootFolderId' # Null /\ rootFolderId' \in DOMAIN tree'
  THEN Ids(LoadGroups(tree', rootFolderId')) ELSE <<>>

\* C16 as claimed: after a group drop whose moveGroupToIndex fails the list
\* stays reordered, no alert is shown, the group markers are cleared, and the
\* mirror's group order differs from the tree's.
C16_FailedGroupMoveDiverges ==
  [][\A S \in GroupIds : \A T \in GroupIds \ {S} : \A ok \in BOOLEAN :
       (draggedGroup = S /\ OnGroupDropOn(T, ok) /\ ~lastCalls'[1].ok)
       => /\ FailedGroupDropKeepsReorder(S, T)
          /\ Ids(groups') # ReloadedGroupIdsNext]_vars

\* C16, amended: after a group drop whose moveGroupToIndex fails the list
\* stays reordered, no alert is shown and the group markers are cleared; the
\* mirror's group order differs from the tree's afterwards when the two
\* agreed before the drop.
C16_FailedGroupMoveKeepsReorder ==
  [][\A S \in GroupIds : \A T \in GroupIds \ {S} : \A ok \in BOOLEAN :
       (draggedGroup = S /\ OnGroupDropOn(T, ok) /\ ~lastCalls'[1].ok)
       => /\ FailedGroupDropKeepsReorder(S, T)
          /\ Ids(groups) = Ids(ReloadedGroups)
             => Ids(groups') # ReloadedGroupIdsNext]_vars

\* a list of two groups was reordered by a drop whose adapter call failed:
\* the mirror has the two in the other order than the tree
C16_Witness ==
  /\ lastHandler = Ran("onGroupDrop", NoUrl)
  /\ Len(groups) = 2
  /\ Len(lastCalls) = 1
  /\ lastCalls[1].op = "moveGroupToIndex"
  /\ ~lastCalls[1].ok
  /\ alerts = 0
  /\ draggedGroup = Null
  /\ Len(ReloadedGroups) = 2
  /\ Ids(groups) = <<ReloadedGroups[2].id, ReloadedGroups[1].id>>

----------------------------------------------------------------------------
(* SpecPage: every handler that calls the adapter, on the seeded page *)

\* the bookmarks of a tree with their folders: [parent, id, title]
Placed(t) ==
  UNION {{[parent |-> f, id |-> t[f][k].id, title |-> t[f][k].title] :
            k \in DOMAIN t[f]} : f \in DOMAIN t}

\* what the store has that the seeded page has not, and the other way round
PageChanges ==
  Cardinality(Placed(tree) \ Placed(SeedPageTree))
  + Cardinality(Placed(SeedPageTree) \ Placed(tree))

\* the user changes the page while it is at most this far from the seed
CanChange == PageChanges < MaxPageChanges

\* nodes the store may hold in SpecPage
PageBudget == 6 + MaxPageChanges

\* nothing is being renamed or dragged: the user does one thing at a time
Idle ==
  /\ editingGroupId = Null /\ editingCollectionId = Null /\ editingTabId = Null
  /\ draggedTab = None /\ draggedOpenTab = None /\ draggedGroup = Null

PageCreateGroup ==
  /\ Idle /\ CanChange /\ Created < PageBudget
  /\ \E name \in NewNames : CreateGroupOf(name)

PageDeleteGroup == Idle /\ CanChange /\ DeleteGroup

PageCreateCollection ==
  /\ Idle /\ CanChange /\ Created < PageBudget
  /\ \E name \in NewNames : CreateCollectionOf(name)

PageDeleteCollection == Idle /\ CanChange /\ DeleteCollection

PageDeleteTab == Idle /\ CanChange /\ DeleteTab

PageDragStart == Idle /\ OnDragStart

PageDragStartOpenTab == Idle /\ OnDragStartOpenTab

PageTabDrop ==
  /\ CanChange
  /\ \E t \in VisibleTabs : \E ok \in BOOLEAN :
       OnTabDropOn(t.collectionId, t.tabId, ok, PageBudget)

PageDropToCollection ==
  /\ CanChange
  /\ \E i \in DOMAIN Visible : \E ok \in BOOLEAN :
       OnDropToCollectionOn(Visible[i].id, ok, PageBudget)

PageStartEditGroup == Idle /\ StartEditGroup

PageStartEditCollection == Idle /\ StartEditCollection

PageStartEditTab == Idle /\ StartEditTab

PageSaveGroupName == CanChange /\ SaveGroupName

PageSaveCollectionName == CanChange /\ SaveCollectionName

PageSaveTabName == CanChange /\ SaveTabName

PageGroupDragStart == Idle /\ OnGroupDragStart

PageGroupDrop == CanChange /\ OnGroupDrop

NextPage ==
  \/ OnMounted
  \/ PageCreateGroup
  \/ PageDeleteGroup
  \/ PageCreateCollection
  \/ PageDeleteCollection
  \/ PageDragStart
  \/ PageDragStartOpenTab
  \/ PageTabDrop
  \/ PageDropToCollection
  \/ PageDeleteTab
  \/ PageStartEditGroup
  \/ PageStartEditCollection
  \/ PageStartEditTab
  \/ OnEditInput
  \/ PageSaveGroupName
  \/ PageSaveCollectionName
  \/ PageSaveTabName
  \/ PageGroupDragStart
  \/ PageGroupDrop

SpecPage == InitPage /\ [][NextPage]_vars

----------------------------------------------------------------------------
(* C17 *)

\* an adapter call of the handler that ran last was rejected
FailedCall == \E k \in DOMAIN lastCalls : ~lastCalls[k].ok

\* C17: the handler that ran last showed an alert exactly when it was
\* createGroup, deleteGroup, createCollection or deleteCollection and its
\* adapter call failed; a drop whose add or move failed, a deleteTab, a
\* rename of a group, a collection or a tab and a group drop whose adapter
\* call failed showed none.
C17_AlertOnlyForGroupAndCollection ==
  /\ alerts = 1
     <=> /\ lastHandler.name \in {"createGroup", "deleteGroup",
                                  "createCollection", "deleteCollection"}
         /\ FailedCall
  /\ (/\ lastHandler.name \in {"onTabDrop", "onDropToCollection", "deleteTab",
                               "saveGroupName", "saveCollectionName",
                               "saveTabName", "onGroupDrop"}
      /\ FailedCall)
     => alerts = 0

\* deleteGroup has just failed and shown its alert
C17_Witness ==
  /\ lastHandler.name = "deleteGroup"
  /\ FailedCall
  /\ alerts = 1

----------------------------------------------------------------------------
(* C18 *)

\* the handlers of C18: the four of groups and collections, the renames,
\* deleteTab and the drops (an open tab added, a tab moved across)
RevertingHandlers ==
  {"createGroup", "createCollection", "deleteGroup", "deleteCollection",
   "saveGroupName", "saveCollectionName", "saveTabName", "deleteTab",
   "onTabDrop", "onDropToCollection"}

\* C18: a step of one of these handlers whose adapter call fails ends (the
\* handler catches the failure) with the mirror's groups, collections with
\* their tab lists and names, and selectedGroupId exactly as before.
C18_FailedCallLeavesMirror ==
  [][(lastHandler'.name \in RevertingHandlers
      /\ \E k \in DOMAIN lastCalls' : ~lastCalls'[k].ok)
     => /\ groups' = groups
        /\ collections' = collections
        /\ selectedGroupId' = selectedGroupId]_vars

\* the rename of a group to b has just failed: no group is named b
C18_Witness ==
  /\ lastHandler.name = "saveGroupName"
  /\ Len(lastCalls) = 1
  /\ lastCalls[1].op = "updateGroup"
  /\ lastCalls[1].title = <<"b">>
  /\ ~lastCalls[1].ok
  /\ Len(groups) = 2
  /\ \A i \in DOMAIN groups : groups[i].name # <<"b">>

----------------------------------------------------------------------------
(* SpecRoot: getOrCreateRootFolder called again and again, the user at work
   in the browser's bookmark manager in between *)

\* a call of getOrCreateRootFolder that returns (the adapter functions make
\* it before anything else); the call logged carries the id it returned
GetRoot ==
  /\ lastHandler' = Ran("getOrCreateRootFolder", NoUrl)
  /\ \E r \in GetOrCreateRootFolder(rootFolderId, tree, nextId) :
       /\ r.nextId = nextId \/ Created < MaxRootNodes
       /\ tree' = r.tree
       /\ nextId' = r.nextId
       /\ rootFolderId' = r.id
       /\ lastCalls' = <<Call("getOrCreateRootFolder", r.id, Null, -1, <<>>, TRUE)>>
  /\ alerts' = 0
  /\ UNCHANGED <<uiStates, sidebarState, mirrorVars, isLoading, paneVars,
                 editVars, dragVars>>

\* the user removes a bookmark or a folder in the bookmark manager
UserRemoves ==
  /\ lastHandler' = Ran("user", NoUrl)
  /\ \E n \in BmNodes(tree) : tree' = BmRemoveTree(tree, n.id)
  /\ lastCalls' = <<>>
  /\ alerts' = 0
  /\ UNCHANGED <<nextId, uiStates, sidebarState, rootFolderId, mirrorVars,
                 isLoading, paneVars, editVars, dragVars>>

\* the user creates a folder or a bookmark in the bookmark manager, titled
\* as the root folder is or otherwise
UserCreates ==
  /\ lastHandler' = Ran("user", NoUrl)
  /\ Created < MaxRootNodes
  /\ \E parent \in DOMAIN tree : \E title \in {ROOT_FOLDER_NAME, <<"a">>} :
       \E url \in {NoUrl, <<"https://", "a">>} :
         tree' = BmCreate(tree, nextId, parent, title, url)
  /\ nextId' = nextId + 1
  /\ lastCalls' = <<>>
  /\ alerts' = 0
  /\ UNCHANGED <<uiStates, sidebarState, rootFolderId, mirrorVars, isLoading,
                 paneVars, editVars, dragVars>>

\* a new page: the module state of storage.ts is constructed again
NewPage ==
  /\ lastHandler' = Ran("", NoUrl)
  /\ rootFolderId' = Null
  /\ lastCalls' = <<>>
  /\ alerts' = 0
  /\ UNCHANGED <<storeVars, mirrorVars, isLoading, paneVars, editVars, dragVars>>

NextRoot ==
  \/ GetRoot
  \/ UserRemoves
  \/ UserCreates
  \/ NewPage

SpecRoot == Init /\ [][NextRoot]_vars

----------------------------------------------------------------------------
(* C19 *)

\* the folders of the tree titled as the root folder is
RootTitled(t) ==
  {n \in BmNodes(t) : n.title = ROOT_FOLDER_NAME /\ n.url = NoUrl}

\* the cache holds the id of a node the store has
CacheValid == rootFolderId # Null /\ \E n \in BmNodes(tree) : n.id = rootFolderId

\* C19: a call of getOrCreateRootFolder creates a folder only when the store
\* has no folder titled TabManager, and only when the cache is empty (the
\* first call of a page) or the cached folder is gone (removed in the
\* bookmark manager); with the cached folder in the store it returns the
\* cached id and creates nothing; when the cached id is of no node the call
\* looks the id up or creates the folder; in every case the id returned is
\* the id of a folder of the store as the call leaves it, and the cache
\* holds it.
C19_RootFolderOnce ==
  [][lastHandler'.name = "getOrCreateRootFolder"
     => LET ret == lastCalls'[1].id
            created == tree' # tree
        IN  /\ created => RootTitled(tree) = {}
            /\ created => ~CacheValid
            /\ created
               => /\ tree' = BmCreate(tree, ret, OtherBookmarksId,
                                      ROOT_FOLDER_NAME, NoUrl)
                  /\ ~BmExists(tree, ret)
            /\ CacheValid => ret = rootFolderId /\ ~created
            /\ (~CacheValid /\ RootTitled(tree) # {})
               => ret \in {n.id : n \in RootTitled(tree)} /\ ~created
            /\ \E n \in BmNodes(tree') : n.id = ret /\ n.url = NoUrl
            /\ rootFolderId' = ret]_vars

\* the cached root folder 3 was removed in the bookmark manager and the next
\* call created the root folder again, as 4
C19_Witness ==
  /\ lastHandler.name = "getOrCreateRootFolder"
  /\ lastCalls = <<Call("getOrCreateRootFolder", 4, Null, -1, <<>>, TRUE)>>
  /\ rootFolderId = 4
  /\ nextId = 5
  /\ tree = BmCreate(EmptyTree, 4, OtherBookmarksId, ROOT_FOLDER_NAME, NoUrl)

----------------------------------------------------------------------------
(* storage.ts: the reads and the write helpers when the API is missing or a
   call of it rejects.  An outcome is a record: threw (the function threw to
   its caller), degraded (the API was missing or a call rejected), value. *)

\* a browser call rejected inside a function body
Thrown(o) == [o EXCEPT !.threw = TRUE, !.degraded = TRUE, !.value = Null]

\* try { body } catch { return default }, left as it is
CatchNothing(o, default) == o

\* try { body } catch { return default }
Catch(o, default) == IF o.threw THEN [o EXCEPT !.threw = FALSE, !.value = default] ELSE o

\* the bookmark calls that may reject, by the place they are made at
BookmarkCalls ==
  {"search", "create", "getChildren", "getChildrenOfGroup", "getChildrenOfFolder"}

\* getOrCreateRootFolder when the calls named in fails reject (a rejected
\* bookmarks.get is the cached folder found missing, which it catches)
GetRootOutcomes(fails, cache, t, nid) ==
  LET valid == cache # Null /\ BmExists(t, cache)
      found == BmSearchFolders(t, ROOT_FOLDER_NAME)
      clean == [threw |-> FALSE, degraded |-> FALSE, value |-> Null,
                id |-> Null, tree |-> t, nextId |-> nid]
  IN  IF ~valid /\ ("search" \in fails \/ (found = {} /\ "create" \in fails))
      THEN {Thrown(clean)}
      ELSE {[clean EXCEPT !.value = r.id, !.id = r.id, !.tree = r.tree,
                          !.nextId = r.nextId] :
              r \in GetOrCreateRootFolder(cache, t, nid)}

\* loadGroups
LoadGroupsOutcomes(available, fails, cache, t, nid) ==
  IF ~available
  THEN {[threw |-> FALSE, degraded |-> TRUE, value |-> <<>>,
         id |-> cache, tree |-> t, nextId |-> nid]}
  ELSE {Catch(IF g.threw \/ "getChildren" \in fails
              THEN Thrown(g)
              ELSE [g EXCEPT !.value = LoadGroups(g.tree, g.id)],
              <<>>) :
          g \in GetRootOutcomes(fails, cache, t, nid)}

\* loadCollections: loadGroups, then getChildren for each group and
\* loadTabsFromFolder (one more getChildren) for each folder found
LoadCollectionsOutcomes(available, fails, cache, t, nid) ==
  IF ~available
  THEN {[threw |-> FALSE, degraded |-> TRUE, value |-> <<>>,
         id |-> cache, tree |-> t, nextId |-> nid]}
  ELSE {Catch(IF \/ g.value # <<>> /\ "getChildrenOfGroup" \in fails
                 \/ /\ \E i \in DOMAIN g.value :
                         SelectSeq(g.tree[g.value[i].id], IsFolder) # <<>>
                    /\ "getChildrenOfFolder" \in fails
              THEN Thrown(g)
              ELSE [g EXCEPT !.value = CollectionsOfGroups(g.tree, g.value)],
              <<>>) :
          g \in LoadGroupsOutcomes(available, fails, cache, t, nid)}

\* loadCollectionUIStates, the store holding stored
LoadCollectionUIStatesOutcome(available, rejects, stored) ==
  IF ~available
  THEN [threw |-> FALSE, degraded |-> TRUE, value |-> NoUIStates]
  ELSE Catch(IF rejects
             THEN Thrown([threw |-> FALSE, degraded |-> FALSE, value |-> Null])
             ELSE [threw |-> FALSE, degraded |-> FALSE, value |-> stored],
             NoUIStates)

\* loadSidebarWidths, the store holding stored (None: nothing stored, and
\* null is returned)
LoadSidebarWidthsOutcome(available, rejects, stored) ==
  IF ~available
  THEN [threw |-> FALSE, degraded |-> TRUE, value |-> None]
  ELSE Catch(IF rejects
             THEN Thrown([threw |-> FALSE, degraded |-> FALSE, value |-> Null])
             ELSE [threw |-> FALSE, degraded |-> FALSE, value |-> stored],
             None)

\* saveCollectionUIStates(states) and saveSidebarWidths(widths): value is
\* what the store holds afterwards
SaveOutcome(available, rejects, given, stored) ==
  IF ~available
  THEN [threw |-> FALSE, degraded |-> TRUE, value |-> stored]
  ELSE Catch(IF rejects
             THEN Thrown([threw |-> FALSE, degraded |-> FALSE, value |-> Null])
             ELSE [threw |-> FALSE, degraded |-> FALSE, value |-> given],
             stored)

\* what a read or a write helper did, as the caller sees it
Outcome(op, o) ==
  [op |-> op, threw |-> o.threw, degraded |-> o.degraded, value |-> o.value]

----------------------------------------------------------------------------
(* SpecRead: the reads and the write helpers called again and again, the
   API there or not, its calls resolving or not *)

\* the calls that reject during one read: none, or those made at one place
\* (the first rejection ends the body of the read)
Rejections == {{}} \cup {{c} : c \in BookmarkCalls}

ReadGroups ==
  /\ lastHandler' = Ran("loadGroups", NoUrl)
  /\ \E available \in BOOLEAN : \E fails \in Rejections :
       \E o \in LoadGroupsOutcomes(available, fails, rootFolderId, tree, nextId) :
         /\ o.nextId = nextId \/ Created < MaxRootNodes
         /\ tree' = o.tree
         /\ nextId' = o.nextId
         /\ rootFolderId' = o.id
         /\ lastCalls' = <<Outcome("loadGroups", o)>>
  /\ alerts' = 0
  /\ UNCHANGED <<uiStates, sidebarState, mirrorVars, isLoading, paneVars,
                 editVars, dragVars>>

ReadCollections ==
  /\ lastHandler' = Ran("loadCollections", NoUrl)
  /\ \E available \in BOOLEAN : \E fails \in Rejections :
       \E o \in LoadCollectionsOutcomes(available, fails, rootFolderId, tree, nextId) :
         /\ o.nextId = nextId \/ Created < MaxRootNodes
         /\ tree' = o.tree
         /\ nextId' = o.nextId
         /\ rootFolderId' = o.id
         /\ lastCalls' = <<Outcome("loadCollections", o)>>
  /\ alerts' = 0
  /\ UNCHANGED <<uiStates, sidebarState, mirrorVars, isLoading, paneVars,
                 editVars, dragVars>>

ReadCollectionUIStates ==
  /\ lastHandler' = Ran("loadCollectionUIStates", NoUrl)
  /\ \E available \in BOOLEAN, rejects \in BOOLEAN :
       lastCalls' = <<Outcome("loadCollectionUIStates",
                              LoadCollectionUIStatesOutcome(available, rejects,
                                                            uiStates))>>
  /\ alerts' = 0
  /\ UNCHANGED <<storeVars, rootFolderId, mirrorVars, isLoading, paneVars,
                 editVars, dragVars>>

\* the widths the store may hold
StoredWidths == {None, [left |-> 1, right |-> 2]}

ReadSidebarWidths ==
  /\ lastHandler' = Ran("loadSidebarWidths", NoUrl)
  /\ \E available \in BOOLEAN, rejects \in BOOLEAN : \E stored \in StoredWidths :
       lastCalls' = <<Outcome("loadSidebarWidths",
                              LoadSidebarWidthsOutcome(available, rejects, stored))>>
  /\ alerts' = 0
  /\ UNCHANGED <<storeVars, rootFolderId, mirrorVars, isLoading, paneVars,
                 editVars, dragVars>>

WriteCollectionUIStates ==
  /\ lastHandler' = Ran("saveCollectionUIStates", NoUrl)
  /\ \E available \in BOOLEAN, rejects \in BOOLEAN :
       \E states \in {NoUIStates, (5 :> [expanded |-> TRUE, order |-> 0])} :
         LET o == SaveOutcome(available, rejects, states, uiStates)
         IN  /\ uiStates' = IF o.threw THEN uiStates ELSE o.value
             /\ lastCalls' = <<Outcome("saveCollectionUIStates", o)>>
  /\ alerts' = 0
  /\ UNCHANGED <<tree, nextId, sidebarState, rootFolderId, mirrorVars,
                 isLoading, paneVars, editVars, dragVars>>

WriteSidebarWidths ==
  /\ lastHandler' = Ran("saveSidebarWidths", NoUrl)
  /\ \E available \in BOOLEAN, rejects \in BOOLEAN :
       \E stored \in StoredWidths :
         lastCalls' = <<Outcome("saveSidebarWidths",
                                SaveOutcome(available, rejects,
                                            [left |-> 1, right |-> 2], stored))>>
  /\ alerts' = 0
  /\ UNCHANGED <<storeVars, rootFolderId, mirrorVars, isLoading, paneVars,
                 editVars, dragVars>>

NextRead ==
  \/ ReadGroups
  \/ ReadCollections
  \/ ReadCollectionUIStates
  \/ ReadSidebarWidths
  \/ WriteCollectionUIStates
  \/ WriteSidebarWidths
  \/ UserCreates
  \/ UserRemoves

SpecRead == Init /\ [][NextRead]_vars

----------------------------------------------------------------------------
(* C20 *)

\* C20: when the bookmark or the storage API is missing, or a call made by
\* the read rejects, loadGroups and loadCollections return an empty list,
\* loadCollectionUIStates an empty mapping and loadSidebarWidths null, none
\* of them throwing; saveCollectionUIStates and saveSidebarWidths never
\* throw.
C20_ReadsDegradeToDefault ==
  (lastCalls # <<>> /\ lastHandler.name = lastCalls[1].op)
  => LET o == lastCalls[1]
     IN  /\ ~o.threw
         /\ o.degraded
            => /\ o.op \in {"loadGroups", "loadCollections"} => o.value = <<>>
               /\ o.op = "loadCollectionUIStates" => o.value = NoUIStates
               /\ o.op = "loadSidebarWidths" => o.value = None

\* loadCollections has just returned an empty list, a call of it rejected,
\* though the root folder has a group with a collection
C20_Witness ==
  /\ lastHandler.name = "loadCollections"
  /\ lastCalls = <<[op |-> "loadCollections", threw |-> FALSE,
                    degraded |-> TRUE, value |-> <<>>]>>
  /\ rootFolderId # Null /\ rootFolderId \in DOMAIN tree
  /\ LoadCollections(tree, rootFolderId) # <<>>


----------------------------------------------------------------------------
(* SpecWatch: the watcher on [showOpenTabs, showGroups, selectedGroupId]   *)
(* as the scheduler runs it: a handler that changes a watched ref queues   *)
(* the watcher's job, and the job runs later, once the handler has ended.  *)
(* The job is a microtask and saveSidebarState an awaited storage write;   *)
(* both are taken to complete, which is the weak fairness of RunWatcher.   *)

\* sidebar states left in storage.local by earlier sessions
SavedStates ==
  {NoState} \cup {SidebarStateOf(so, TRUE, sel) : so \in BOOLEAN, sel \in {Null, 5, 9}}

InitWatch ==
  /\ tree = SeedPageTree
  /\ nextId = 9
  /\ uiStates = NoUIStates
  /\ sidebarState \in SavedStates
  /\ Constructed

\* @click="selectedGroupId = group.id"
ClickGroup ==
  /\ ~isLoading
  /\ lastHandler' = Ran("selectGroup", NoUrl)
  /\ \E i \in DOMAIN groups :
       /\ selectedGroupId' = groups[i].id
       /\ watchQueued' = (watchQueued \/ groups[i].id # selectedGroupId)
  /\ lastCalls' = <<>>
  /\ alerts' = 0
  /\ UNCHANGED <<storeVars, rootFolderId, groups, collections, isLoading,
                 showOpenTabs, showGroups, pendingMove, pendingCalls, mountStep,
                 editVars, dragVars>>

\* @click="showOpenTabs = !showOpenTabs"
ToggleOpenTabs ==
  /\ ~isLoading
  /\ lastHandler' = Ran("toggleOpenTabs", NoUrl)
  /\ showOpenTabs' = ~showOpenTabs
  /\ watchQueued' = TRUE
  /\ lastCalls' = <<>>
  /\ alerts' = 0
  /\ UNCHANGED <<storeVars, rootFolderId, mirrorVars, isLoading, showGroups,
                 pendingMove, pendingCalls, mountStep,
                 editVars, dragVars>>

\* @click="showGroups = !showGroups"
ToggleGroups ==
  /\ ~isLoading
  /\ lastHandler' = Ran("toggleGroups", NoUrl)
  /\ showGroups' = ~showGroups
  /\ watchQueued' = TRUE
  /\ lastCalls' = <<>>
  /\ alerts' = 0
  /\ UNCHANGED <<storeVars, rootFolderId, mirrorVars, isLoading, showOpenTabs,
                 pendingMove, pendingCalls, mountStep,
                 editVars, dragVars>>

\* the queued job runs: the watcher's callback with the refs as they are now
RunWatcher ==
  /\ watchQueued
  /\ watchQueued' = FALSE
  /\ sidebarState' = WatcherJob(isLoading, showOpenTabs, showGroups,
                                selectedGroupId, sidebarState)
  /\ lastHandler' = Ran("watch", NoUrl)
  /\ lastCalls' = <<>>
  /\ alerts' = 0
  /\ UNCHANGED <<tree, nextId, uiStates, rootFolderId, mirrorVars, isLoading,
                 showOpenTabs, showGroups, pendingMove, pendingCalls, mountStep,
                 editVars, dragVars>>

NextWatch ==
  \/ OnMounted
  \/ ClickGroup
  \/ ToggleOpenTabs
  \/ ToggleGroups
  \/ RunWatcher
  \/ PageCreateGroup
  \/ PageDeleteGroup
  \/ PageCreateCollection

SpecWatch == InitWatch /\ [][NextWatch]_vars /\ WF_vars(RunWatcher)

----------------------------------------------------------------------------
(* C21 *)

\* the three watched refs
Watched == <<showOpenTabs, showGroups, selectedGroupId>>

\* storage.local holds the current collapsed flags and the current selection
Persisted ==
  /\ sidebarState.present
  /\ sidebarState.leftCollapsed = ~showOpenTabs
  /\ sidebarState.rightCollapsed = ~showGroups
  /\ sidebarState.selectedGroupId = selectedGroupId

\* C21: the displayed collections are the mirror's collections of the
\* selected group, in mirror order, and none when no group is selected; once
\* startup has finished, a change of selectedGroupId or of a collapsed flag
\* either is saved by the handler that made it or leaves the watcher's job
\* queued, and a queued job leads to the persisted sidebar state holding the
\* current collapsed flags and selection.
C21_DisplayedAndPersisted ==
  /\ [](Visible = IF selectedGroupId = Null THEN <<>>
                  ELSE SelectSeq(collections,
                                 LAMBDA c : c.groupId = selectedGroupId))
  /\ [][(~isLoading /\ Watched' # Watched) => (watchQueued' \/ Persisted')]_vars
  /\ ((~isLoading /\ watchQueued) ~> Persisted)

\* the left sidebar is collapsed and the second group selected, which shows
\* none of the first group's collections, and the watcher has saved both
C21_Witness ==
  /\ lastHandler.name = "watch"
  /\ ~isLoading /\ ~watchQueued
  /\ ~showOpenTabs /\ selectedGroupId = 5
  /\ Len(collections) >= 2 /\ Visible = <<>>
  /\ Persisted
  /\ sidebarState.leftCollapsed


----------------------------------------------------------------------------
(* C22 *)

\* C22: after a drag-end handler (onDragEnd of a tab, an open tab or a
\* collection card, onGroupDragEnd of a group) has run, the four drag markers
\* and the four drag-over markers are all null, whatever they were before.
C22_DragEndClearsAllMarkers ==
  lastHandler.name \in {"onDragEnd", "onGroupDragEnd"} =>
    /\ draggedTab = None /\ draggedOpenTab = None
    /\ draggedCollection = Null /\ draggedGroup = Null
    /\ dragOverCollectionId = Null /\ dragOverCollectionForSort = Null
    /\ dragOverTabId = Null /\ dragOverGroupId = Null


----------------------------------------------------------------------------
(* SpecAwait: a cross-collection tab drop in two steps, up to its          *)
(* `await moveTab` and from there on, with the handlers the user can run   *)
(* in between.  The stores are those a first session leaves that created   *)
(* one group (4), two collections (5, 6) and three tabs (7, 8, 9) in 5.    *)

SeedAwaitTree ==
  (OtherBookmarksId :> <<Node(3, ROOT_FOLDER_NAME, NoUrl)>>)
  @@ (3 :> <<Node(4, <<"a">>, NoUrl)>>)
  @@ (4 :> <<Node(5, <<"a">>, NoUrl), Node(6, <<"a">>, NoUrl)>>)
  @@ (5 :> <<Node(7, <<"A">>, <<"https://", "a">>),
             Node(8, <<"B">>, <<"https://", "b">>),
             Node(9, <<"C">>, <<"https://", "c">>)>>)
  @@ (6 :> <<>>)

InitAwait ==
  /\ tree = SeedAwaitTree
  /\ nextId = 10
  /\ uiStates = NoUIStates
  /\ sidebarState = SidebarStateOf(TRUE, TRUE, 4)
  /\ Constructed

\* what splice(i, 1) hands back for an index past the end: [movedTab] = []
Undefined == [undefined |-> TRUE]

\* every element of every tab list is a tab; the template's v-for reads
\* tab.id of each element, so a page with an undefined element is not
\* followed further
MirrorSound ==
  \A i \in DOMAIN collections : \A j \in DOMAIN collections[i].tabs :
    collections[i].tabs[j] # Undefined

\* onTabDrop(collectionId, targetTabId), cross-collection branch, up to the
\* await: sourceIndex and targetIndex are computed and moveTab is issued
TabDropBegin ==
  /\ ~isLoading /\ MirrorSound /\ pendingMove = None
  /\ draggedOpenTab = None /\ draggedTab # None
  /\ \E c \in DOMAIN collections : \E targetTabId \in {Null} \cup {7, 8, 9} :
       LET collectionId == collections[c].id
           sourceCollectionId == draggedTab.collectionId
           sourceTabId == draggedTab.tabId
           tabs == TabsOf(collectionId)
           sourceTabs == TabsOf(sourceCollectionId)
           sourceIndex == FindIndex(sourceTabs, LAMBDA t : t.id = sourceTabId)
           targetIndex == FindIndex(tabs, LAMBDA t : t.id = targetTabId)
       IN  /\ sourceCollectionId # collectionId
           /\ HasCollection(sourceCollectionId)
           /\ targetTabId # Null => targetIndex > -1
           /\ sourceIndex > -1
           /\ ~HasUrl(tabs, At(sourceTabs, sourceIndex).url)
           /\ pendingMove' = [handler |-> "onTabDrop", tabId |-> sourceTabId,
                              source |-> sourceCollectionId, target |-> collectionId,
                              sourceIndex |-> sourceIndex, targetIndex |-> targetIndex]
  /\ lastHandler' = Ran("onTabDrop", NoUrl)
  /\ lastCalls' = <<>>
  /\ alerts' = 0
  /\ UNCHANGED <<storeVars, rootFolderId, mirrorVars, isLoading, showOpenTabs,
                 showGroups, watchQueued, pendingCalls, mountStep, editVars, dragVars>>

\* onDropToCollection(targetCollectionId), dragged-tab branch, up to the await
DropToCollectionBegin ==
  /\ ~isLoading /\ MirrorSound /\ pendingMove = None
  /\ draggedCollection = Null
  /\ draggedOpenTab = None /\ draggedTab # None
  /\ \E c \in DOMAIN collections :
       LET targetCollectionId == collections[c].id
           sourceCollectionId == draggedTab.collectionId
           tabId == draggedTab.tabId
           sourceTabs == TabsOf(sourceCollectionId)
           tabIndex == FindIndex(sourceTabs, LAMBDA t : t.id = tabId)
       IN  /\ sourceCollectionId # targetCollectionId
           /\ HasCollection(sourceCollectionId)
           /\ tabIndex > -1
           /\ ~HasUrl(TabsOf(targetCollectionId), At(sourceTabs, tabIndex).url)
           /\ pendingMove' = [handler |-> "onDropToCollection", tabId |-> tabId,
                              source |-> sourceCollectionId,
                              target |-> targetCollectionId,
                              sourceIndex |-> tabIndex, targetIndex |-> -1]
  /\ lastHandler' = Ran("onDropToCollection", NoUrl)
  /\ lastCalls' = <<>>
  /\ alerts' = 0
  /\ UNCHANGED <<storeVars, rootFolderId, mirrorVars, isLoading, showOpenTabs,
                 showGroups, watchQueued, pendingCalls, mountStep, editVars, dragVars>>

\* the drop from its await on: moveTab has resolved or rejected; on success
\* the element at the index computed before the await is spliced out of the
\* source's list as it is now and put into the target's list
DropResume ==
  /\ pendingMove # None
  /\ pendingMove' = None
  /\ lastHandler' = [Ran(pendingMove.handler, NoUrl)
                       EXCEPT !.tab = [collectionId |-> pendingMove.source,
                                       tabId |-> pendingMove.tabId]]
  /\ \E ok \in BOOLEAN :
       IF CanMove(ok, pendingMove.tabId, pendingMove.target)
       THEN LET sourceTabs == TabsOf(pendingMove.source)
                tabs == TabsOf(pendingMove.target)
                movedTab == IF pendingMove.sourceIndex < Len(sourceTabs)
                            THEN At(sourceTabs, pendingMove.sourceIndex)
                            ELSE Undefined
            IN  /\ tree' = BmMove(tree, pendingMove.tabId, pendingMove.target, -1)
                /\ collections' =
                     WithTabs(
                       WithTabs(collections, pendingMove.source,
                                SpliceOut(sourceTabs, pendingMove.sourceIndex)),
                       pendingMove.target,
                       IF pendingMove.targetIndex > -1
                       THEN SpliceIn(tabs, pendingMove.targetIndex, movedTab)
                       ELSE Append(tabs, movedTab))
                /\ lastCalls' = <<Call("moveTab", pendingMove.tabId,
                                       pendingMove.target, -1, <<>>, TRUE)>>
       ELSE /\ lastCalls' = <<Call("moveTab", pendingMove.tabId,
                                   pendingMove.target, -1, <<>>, FALSE)>>
            /\ UNCHANGED <<tree, collections>>
  /\ draggedTab' = None
  /\ IF pendingMove.handler = "onTabDrop"
     THEN /\ dragOverTabId' = Null
          /\ UNCHANGED <<draggedOpenTab, dragOverCollectionId>>
     ELSE /\ draggedOpenTab' = None
          /\ dragOverCollectionId' = Null
          /\ UNCHANGED dragOverTabId
  /\ alerts' = 0
  /\ UNCHANGED <<nextId, uiStates, sidebarState, rootFolderId, groups,
                 selectedGroupId, isLoading, showOpenTabs, showGroups,
                 watchQueued, pendingCalls, mountStep, editVars, draggedCollection,
                 dragOverCollectionForSort, draggedGroup, dragOverGroupId>>

AwaitDragStart == MirrorSound /\ OnDragStart

AwaitDragEnd == MirrorSound /\ OnDragEnd

AwaitDeleteTab == MirrorSound /\ DeleteTab

\* a drop on a tab of the dragged tab's own collection: the synchronous
\* reorder of onTabDrop
AwaitReorder ==
  /\ MirrorSound
  /\ draggedTab # None /\ draggedOpenTab = None
  /\ \E t \in VisibleTabs :
       /\ t.collectionId = draggedTab.collectionId
       /\ OnTabDropOn(t.collectionId, t.tabId, TRUE, 0)

NextAwait ==
  \/ OnMounted
  \/ AwaitDragStart
  \/ AwaitDragEnd
  \/ TabDropBegin
  \/ DropToCollectionBegin
  \/ DropResume
  \/ AwaitDeleteTab
  \/ AwaitReorder

SpecAwait == InitAwait /\ [][NextAwait]_vars

----------------------------------------------------------------------------
(* C23 *)

\* C23: when a cross-collection tab drop has resumed after its moveTab and
\* the move succeeded, the tab taken out of the source collection and put
\* into the destination is the dragged tab: the dragged tab is in the
\* destination's list and no longer in the source's, and no other tab has
\* changed collection, whatever ran while the call was pending.
C23_ResumedDropMovesDraggedTab ==
  (/\ lastHandler.name \in {"onTabDrop", "onDropToCollection"}
   /\ lastHandler.tab # None
   /\ Len(lastCalls) = 1
   /\ lastCalls[1].op = "moveTab" /\ lastCalls[1].ok) =>
    LET dragged == lastHandler.tab.tabId
        sourceTabs == TabsOf(lastHandler.tab.collectionId)
        tabs == TabsOf(lastCalls[1].to)
    IN  /\ \E j \in DOMAIN tabs : tabs[j] # Undefined /\ tabs[j].id = dragged
        /\ \A j \in DOMAIN sourceTabs : sourceTabs[j].id # dragged
        /\ \A j \in DOMAIN tabs : tabs[j] # Undefined


----------------------------------------------------------------------------
(* SpecStartup: onMounted on the stores earlier sessions can have left: a  *)
(* fresh profile, or two groups (4, 5) with collections 6, 7 in the first  *)
(* and 8 in the second; any saved UI states; any saved sidebar state.      *)

SeedStartupTree ==
  (OtherBookmarksId :> <<Node(3, ROOT_FOLDER_NAME, NoUrl)>>)
  @@ (3 :> <<Node(4, <<"a">>, NoUrl), Node(5, <<"a">>, NoUrl)>>)
  @@ (4 :> <<Node(6, <<"a">>, NoUrl), Node(7, <<"a">>, NoUrl)>>)
  @@ (5 :> <<Node(8, <<"a">>, NoUrl)>>)
  @@ (6 :> <<Node(9, <<"A">>, <<"https://", "a">>)>>)
  @@ (7 :> <<>>) @@ (8 :> <<>>)

\* UI-state stores: a record for any of the collections
StoredUIStates ==
  UNION {[D -> [expanded : BOOLEAN, order : 0..MaxSavedOrder]] :
           D \in SUBSET {6, 7, 8}}

InitStartup ==
  /\ \/ tree = EmptyTree /\ nextId = 3 /\ uiStates = NoUIStates
     \/ tree = SeedStartupTree /\ nextId = 10 /\ uiStates \in StoredUIStates
  /\ sidebarState \in SavedStates
  /\ Constructed

NextStartup ==
  \/ OnMounted
  \/ Reload
  \/ ClickGroup
  \/ ToggleOpenTabs
  \/ ToggleGroups
  \/ RunWatcher

SpecStartup == InitStartup /\ [][NextStartup]_vars /\ WF_vars(OnMounted)

\* onMounted has run and has loaded groups
StartedWithGroups == lastHandler.name = "onMounted" /\ groups # <<>>

\* the position of collection id in what loadCollections returns now
LoadedPosition(id) ==
  CHOOSE k \in DOMAIN LoadCollections(tree, rootFolderId) :
    LoadCollections(tree, rootFolderId)[k].id = id

----------------------------------------------------------------------------
(* C24 *)

\* C24: after a startup that loaded groups, the mirror's collections are the
\* loaded collections, each once; one with a saved order comes before every
\* one with a larger saved order and before every one without a saved order;
\* those without a saved order are in loaded order among themselves; and
\* each has its saved expanded flag, or false without a saved record.
C24_StartupSortsBySavedOrder ==
  StartedWithGroups =>
    LET loaded == LoadCollections(tree, rootFolderId)
        Saved(c) == c.id \in DOMAIN uiStates
    IN  /\ Len(collections) = Len(loaded)
        /\ \A k \in DOMAIN loaded :
             \E i \in DOMAIN collections :
               collections[i] =
                 [loaded[k] EXCEPT !.expanded =
                    IF Saved(loaded[k]) THEN uiStates[loaded[k].id].expanded
                    ELSE FALSE]
        /\ \A i, j \in DOMAIN collections :
             i < j =>
               LET a == collections[i]
                   b == collections[j]
               IN  /\ Saved(b) => Saved(a)
                   /\ Saved(a) /\ Saved(b) =>
                        uiStates[a.id].order <= uiStates[b.id].order
                   /\ ~Saved(a) /\ ~Saved(b) =>
                        LoadedPosition(a.id) < LoadedPosition(b.id)

\* the last loaded collection is the only one with a saved record and comes
\* first, expanded; the two without a record follow in loaded order
C24_Witness ==
  /\ StartedWithGroups
  /\ DOMAIN uiStates = {8}
  /\ uiStates[8].expanded
  /\ Ids(collections) = <<8, 6, 7>>
  /\ collections[1].expanded /\ ~collections[2].expanded


----------------------------------------------------------------------------
(* C25 *)

\* C25: after a startup that loaded groups, selectedGroupId is the saved
\* selected group id when that is the id of a loaded group, and the id of the
\* first loaded group otherwise; after a startup on a profile without groups
\* it is still empty.
C25_StartupRestoresSelection ==
  lastHandler.name = "onMounted" =>
    /\ groups # <<>> =>
         selectedGroupId =
           IF \E i \in DOMAIN groups : groups[i].id = sidebarState.selectedGroupId
           THEN sidebarState.selectedGroupId
           ELSE groups[1].id
    /\ (rootFolderId # Null /\ tree[rootFolderId] = <<>>) => selectedGroupId = Null

\* the saved selection is the second group and is restored
C25_Witness ==
  /\ lastHandler.name = "onMounted"
  /\ Len(groups) = 2
  /\ sidebarState.selectedGroupId = 5
  /\ selectedGroupId = 5


----------------------------------------------------------------------------
(* SpecMount: onMounted from await to await.  Each step ends at the next   *)
(* await of the handler; an awaited browser call settles, which is the     *)
(* weak fairness of the step that follows it.                              *)

\* await debugStorage(), outside the try: it returns when the bookmarks API
\* is missing and catches what its own calls throw
MountDebugStorage ==
  /\ isLoading /\ mountStep = "debugStorage"
  /\ mountStep' = "load"
  /\ lastHandler' = Ran("debugStorage", NoUrl)
  /\ \E ok \in BOOLEAN :
       \E r \in (IF ok THEN GetOrCreateRootFolder(rootFolderId, tree, nextId)
                 ELSE {[id |-> rootFolderId, tree |-> tree, nextId |-> nextId]}) :
         /\ tree' = r.tree
         /\ nextId' = r.nextId
         /\ rootFolderId' = r.id
  /\ lastCalls' = <<>>
  /\ alerts' = 0
  /\ UNCHANGED <<uiStates, sidebarState, mirrorVars, isLoading, showOpenTabs,
                 showGroups, watchQueued, pendingMove, pendingCalls, editVars, dragVars>>

\* the try block up to `await loadOpenTabs()`: the five awaited loads, then
\* the mirror and the selection.  threw: one of the awaits rejects, which
\* ends in the catch and the finally blocks; stateRead: loadSidebarState
\* had resolved before
MountLoad ==
  /\ isLoading /\ mountStep = "load"
  /\ lastHandler' = Ran("onMounted", NoUrl)
  /\ \E threw \in BOOLEAN, stateRead \in BOOLEAN :
       LET savedState == sidebarState
           restores == (~threw \/ stateRead) /\ savedState.present
       IN  /\ showOpenTabs' = IF restores THEN ~savedState.leftCollapsed
                              ELSE showOpenTabs
           /\ showGroups' = IF restores THEN ~savedState.rightCollapsed
                            ELSE showGroups
           /\ IF threw
              THEN /\ groups' = <<>>
                   /\ collections' = <<>>
                   /\ isLoading' = FALSE
                   /\ mountStep' = "caught"
                   /\ UNCHANGED <<tree, nextId, rootFolderId, selectedGroupId>>
              ELSE \E r \in GetOrCreateRootFolder(rootFolderId, tree, nextId) :
                     /\ tree' = r.tree
                     /\ nextId' = r.nextId
                     /\ rootFolderId' = r.id
                     /\ groups' = LoadGroups(r.tree, r.id)
                     /\ collections' =
                          CollectionsWithState(uiStates, LoadCollections(r.tree, r.id))
                     /\ selectedGroupId' =
                          RestoredGroupId(savedState, LoadGroups(r.tree, r.id),
                                          selectedGroupId)
                     /\ mountStep' = "loadOpenTabs"
                     /\ UNCHANGED isLoading
           \* the watcher's job runs at the await after the restored values
           /\ sidebarState' = WatcherJob(isLoading, showOpenTabs', showGroups',
                                         selectedGroupId', sidebarState)
  /\ lastCalls' = <<>>
  /\ alerts' = 0
  /\ UNCHANGED <<uiStates, watchQueued, pendingMove, pendingCalls, editVars, dragVars>>

\* a variant without the finally block
MountLoadOpenTabsUnfinished ==
  /\ isLoading /\ mountStep = "loadOpenTabs"
  /\ lastHandler' = Ran("loadOpenTabs", NoUrl)
  /\ \E ok \in BOOLEAN :
       IF ok
       THEN /\ mountStep' = "done"
            /\ isLoading' = FALSE
            /\ UNCHANGED <<groups, collections>>
       ELSE /\ groups' = <<>>
            /\ collections' = <<>>
            /\ mountStep' = "caught"
            /\ UNCHANGED isLoading
  /\ lastCalls' = <<>>
  /\ alerts' = 0
  /\ UNCHANGED <<storeVars, rootFolderId, selectedGroupId, showOpenTabs,
                 showGroups, watchQueued, pendingMove, pendingCalls, editVars, dragVars>>

\* `await loadOpenTabs()` settles: the end of the try block, or the catch
\* block, and the finally block
MountLoadOpenTabs ==
  /\ isLoading /\ mountStep = "loadOpenTabs"
  /\ lastHandler' = Ran("loadOpenTabs", NoUrl)
  /\ \E ok \in BOOLEAN :
       IF ok
       THEN /\ mountStep' = "done"
            /\ UNCHANGED <<groups, collections>>
       ELSE /\ groups' = <<>>
            /\ collections' = <<>>
            /\ mountStep' = "caught"
  /\ isLoading' = FALSE
  /\ lastCalls' = <<>>
  /\ alerts' = 0
  /\ UNCHANGED <<storeVars, rootFolderId, selectedGroupId, showOpenTabs,
                 showGroups, watchQueued, pendingMove, pendingCalls, editVars, dragVars>>

\* a fresh profile, or the seeded one with one saved UI state
InitMount ==
  /\ \/ tree = EmptyTree /\ nextId = 3 /\ uiStates = NoUIStates
     \/ /\ tree = SeedStartupTree /\ nextId = 10
        /\ uiStates \in {NoUIStates, [c \in {8} |-> [expanded |-> TRUE, order |-> 0]]}
  /\ sidebarState \in SavedStates
  /\ Constructed

NextMount ==
  \/ MountDebugStorage
  \/ MountLoad
  \/ MountLoadOpenTabs
  \/ Reload

SpecMount ==
  /\ InitMount
  /\ [][NextMount]_vars
  /\ WF_vars(MountDebugStorage) /\ WF_vars(MountLoad) /\ WF_vars(MountLoadOpenTabs)

----------------------------------------------------------------------------
(* C26 *)

\* C26: startup always finishes: while every awaited call settles, a page
\* that is loading leads to isLoading being false, on every path; and when
\* isLoading becomes false after a load step has thrown, groups and
\* collections are both empty.
C26_StartupAlwaysFinishes ==
  /\ isLoading ~> ~isLoading
  /\ [][(isLoading /\ ~isLoading' /\ mountStep' = "caught") =>
          (groups' = <<>> /\ collections' = <<>>)]_vars

\* loadOpenTabs has rejected on a profile with groups, after the selection
\* was restored: the page has stopped loading with an empty mirror
C26_Witness ==
  /\ lastHandler.name = "loadOpenTabs"
  /\ mountStep = "caught"
  /\ ~isLoading
  /\ rootFolderId # Null /\ Len(tree[rootFolderId]) = 2
  /\ selectedGroupId # Null
  /\ groups = <<>> /\ collections = <<>>


----------------------------------------------------------------------------
(* C27 *)

\* C27: no sidebar-state save is issued while isLoading is true: a step
\* taken while the page is loading, startup with its restored collapsed
\* flags and selection included, leaves the persisted sidebar state as it is.
C27_NoSaveWhileLoading ==
  [][isLoading => sidebarState' = sidebarState]_vars

\* startup has restored the collapsed left sidebar and has selected the
\* first group in place of a saved one that no longer exists; the persisted
\* state still names the old group
C27_Witness ==
  /\ lastHandler.name = "onMounted"
  /\ ~isLoading
  /\ ~showOpenTabs
  /\ selectedGroupId = 4
  /\ sidebarState = SidebarStateOf(FALSE, TRUE, 9)


----------------------------------------------------------------------------
(* SpecAdd: the handlers that add tabs, on the two seeded collections of   *)
(* SpecTabs, with any tab the browser can have open in the current window  *)

\* the open tab with the given url
OpenTab(url) == CHOOSE t \in BrowserTabs : t.url = url

\* what tabs.query({ currentWindow: true }) can return: no tab, pages with
\* an excluded page between or before them, two tabs on one page
Windows ==
  { <<>>,
    <<OpenTab(<<"https://", "a">>), OpenTab(<<"javascript:", "x">>),
      OpenTab(<<"https://", "b">>)>>,
    <<OpenTab(NoUrl), OpenTab(<<"chrome://", "x">>), OpenTab(<<"https://", "b">>),
      OpenTab(<<"https://", "a">>)>>,
    <<OpenTab(<<"https://", "a">>), OpenTab(<<"https://", "a">>)>> }

\* which creates resolve: all of them, or all but the one for the f-th tab
CreateOutcomes(windowTabs) ==
  {[k \in DOMAIN windowTabs |-> k # f] : f \in 0..Len(windowTabs)}

SaveAnyTabs ==
  /\ draggedOpenTab = None
  /\ \E i \in DOMAIN Visible : \E windowTabs \in Windows :
       \E oks \in CreateOutcomes(windowTabs) :
         SaveCurrentTabsOf(Visible[i].id, windowTabs, oks, TabsBudget)

NextAdd ==
  \/ OnMounted
  \/ OnDragStartOpenTab
  \/ OnTabDrop
  \/ OnDropToCollection
  \/ SaveAnyTabs
  \/ OnDragEnd

SpecAdd == InitTabs /\ [][NextAdd]_vars

\* the url is missing or starts with one of the six excluded prefixes
Excluded(url) ==
  \/ url = NoUrl
  \/ url[1] \in {"chrome://", "chrome-extension://", "about:", "edge://",
                 "brave://", "javascript:"}

----------------------------------------------------------------------------
(* C28 *)

\* the titles under which the handlers hand an open tab to addTabToCollection
CallTitles(t) == {OrElse(t.title, t.url), OrElse(t.title, <<"Untitled">>)}

\* C28: no tab with a missing or excluded url is ever in a collection of the
\* mirror or a bookmark of the store, and no addTabToCollection call of an
\* open-tab drop or of saveCurrentTabs, resolved or rejected, is for an open
\* tab with such a url (the open tabs have titles of their own, which name
\* the tab a call was for).
C28_ExcludedUrlsNeverAdded ==
  /\ \A i \in DOMAIN collections : \A j \in DOMAIN collections[i].tabs :
       ~Excluded(collections[i].tabs[j].url)
  /\ \A f \in DOMAIN tree : \A k \in DOMAIN tree[f] :
       IsFolder(tree[f][k]) \/ ~Excluded(tree[f][k].url)
  /\ \A k \in DOMAIN lastCalls :
       lastCalls[k].op = "addTabToCollection" =>
         \E t \in BrowserTabs :
           ~Excluded(t.url) /\ lastCalls[k].title \in CallTitles(t)

\* saveCurrentTabs has run on the window that holds a javascript: page
\* between two pages, and has added the two pages alone
C28_Witness ==
  /\ lastHandler.name = "saveCurrentTabs"
  /\ Len(lastCalls) = 2
  /\ lastCalls[1].ok /\ lastCalls[2].ok
  /\ lastCalls[1].title = <<"A">> /\ lastCalls[2].title = <<"Untitled">>
  /\ \E i \in DOMAIN collections :
       /\ Len(collections[i].tabs) = 2
       /\ collections[i].tabs[1].url = <<"https://", "a">>
       /\ collections[i].tabs[2].url = <<"https://", "b">>


----------------------------------------------------------------------------
(* C29 *)

\* the window tabs saveCurrentTabs has to add to a collection holding old:
\* those with a url that is not excluded and not the url of a tab of old
FreshTabs(old, windowTabs) ==
  SelectSeq(windowTabs,
            LAMBDA t : ~Excluded(t.url) /\ \A k \in DOMAIN old : old[k].url # t.url)

\* C29: saveCurrentTabs(c) issues one create for every window tab whose url
\* is valid and was not in c when it started, a rejected create not ending
\* the loop; the tabs c had keep their positions; and after them c holds,
\* in window order, one tab for every create that resolved, and nothing
\* else; the other collections are as before.
C29_SaveAppendsInWindowOrder ==
  [][lastHandler'.name = "saveCurrentTabs" =>
       \A i \in DOMAIN collections : \A windowTabs \in Windows :
         \A oks \in CreateOutcomes(windowTabs) :
           SaveCurrentTabsOf(collections[i].id, windowTabs, oks, TabsBudget) =>
             LET old == collections[i].tabs
                 new == collections'[i].tabs
                 fresh == FreshTabs(old, windowTabs)
                 made == SelectSeq([n \in DOMAIN fresh |-> n],
                                   LAMBDA n : lastCalls'[n].ok)
             IN  /\ Len(lastCalls') = Len(fresh)
                 /\ Len(new) = Len(old) + Len(made)
                 /\ \A k \in DOMAIN old : new[k] = old[k]
                 /\ \A m \in DOMAIN made :
                      /\ new[Len(old) + m].url = fresh[made[m]].url
                      /\ new[Len(old) + m].title =
                           OrElse(fresh[made[m]].title, <<"Untitled">>)
                 /\ \A j \in DOMAIN collections :
                      j # i => collections'[j] = collections[j]]_vars

\* saveCurrentTabs has run on a window with two pages: the create for the
\* first was rejected, the create for the second resolved and its tab is
\* the only one of the collection
C29_Witness ==
  /\ lastHandler.name = "saveCurrentTabs"
  /\ Len(lastCalls) = 2
  /\ ~lastCalls[1].ok /\ lastCalls[2].ok
  /\ lastCalls[1].title = <<"A">>
  /\ \E i \in DOMAIN collections :
       /\ Len(collections[i].tabs) = 1
       /\ collections[i].tabs[1].url = <<"https://", "b">>


----------------------------------------------------------------------------
(* C30 *)

\* C30: deleting a group does not modify the UI-state store: deleteGroup,
\* successful or not, leaves every record as it was, those of the deleted
\* group's collections included.
C30_DeleteGroupKeepsUIStates ==
  [][lastHandler'.name = "deleteGroup" => uiStates' = uiStates]_vars

\* a group has been deleted and the store still holds the record of one of
\* its collections, which is no longer a bookmark nor in the mirror
C30_Witness ==
  /\ lastHandler.name = "deleteGroup"
  /\ Len(lastCalls) = 1
  /\ lastCalls[1].ok
  /\ \E c \in DOMAIN uiStates :
       /\ c \notin DOMAIN tree
       /\ \A i \in DOMAIN collections : collections[i].id # c

----------------------------------------------------------------------------
(* C31 *)

\* what a reload would show after the step
ReloadedCollectionsNext ==
  IF rootFolderId' # Null /\ rootFolderId' \in DOMAIN tree'
  THEN CollectionsWithState(uiStates', LoadCollections(tree', rootFolderId'))
  ELSE <<>>

\* C31 as claimed: a toggleCollectionExpand leaves the order a reload shows
\* for every group's collections as a reload would have shown it without the
\* toggle, whether or not the toggled collection had a saved record.
C31_ToggleKeepsReloadOrder ==
  [][lastHandler'.name = "toggleCollectionExpand"
       => \A g \in GroupIds :
            OrderIn(ReloadedCollectionsNext, g) = OrderIn(ReloadedCollections, g)]_vars


----------------------------------------------------------------------------
(* SpecRename: the rename commits with their await.  saveGroupName,        *)
(* saveCollectionName and saveTabName read editingName, send the update    *)
(* and wait; the page handles other events until the update settles, and   *)
(* the handler then reads editingName again and clears its editing id.     *)

MaxPendingRenames == 1   \* rename commits that may wait at their await at once

\* a rename commit waiting at its await: the item and the title it sent
PendingRename(handler, id, title) ==
  [handler |-> handler, id |-> id, title |-> title]

RenameHandlers == {"saveGroupName", "saveCollectionName", "saveTabName"}

\* saveGroupName(group) up to its await; with a blank name there is no await
SaveGroupNameBegin ==
  /\ ~isLoading /\ Len(pendingCalls) < MaxPendingRenames
  /\ \E i \in DOMAIN groups :
       /\ editingGroupId = groups[i].id
       /\ IF Trim(editingName) # <<>>
          THEN /\ pendingCalls' =
                    Append(pendingCalls,
                           PendingRename("saveGroupName", groups[i].id,
                                         Trim(editingName)))
               /\ UNCHANGED editingGroupId
          ELSE /\ editingGroupId' = Null
               /\ UNCHANGED pendingCalls
  /\ lastHandler' = Ran("saveGroupName", NoUrl)
  /\ lastCalls' = <<>>
  /\ alerts' = 0
  /\ UNCHANGED <<storeVars, rootFolderId, mirrorVars, isLoading, showOpenTabs,
                 showGroups, watchQueued, pendingMove, mountStep,
                 editingCollectionId, editingTabId, editingName, dragVars>>

\* saveCollectionName(collection) up to its await
SaveCollectionNameBegin ==
  /\ ~isLoading /\ Len(pendingCalls) < MaxPendingRenames
  /\ \E i \in DOMAIN Visible :
       /\ editingCollectionId = Visible[i].id
       /\ IF Trim(editingName) # <<>>
          THEN /\ pendingCalls' =
                    Append(pendingCalls,
                           PendingRename("saveCollectionName", Visible[i].id,
                                         Trim(editingName)))
               /\ UNCHANGED editingCollectionId
          ELSE /\ editingCollectionId' = Null
               /\ UNCHANGED pendingCalls
  /\ lastHandler' = Ran("saveCollectionName", NoUrl)
  /\ lastCalls' = <<>>
  /\ alerts' = 0
  /\ UNCHANGED <<storeVars, rootFolderId, mirrorVars, isLoading, showOpenTabs,
                 showGroups, watchQueued, pendingMove, mountStep,
                 editingGroupId, editingTabId, editingName, dragVars>>

\* saveTabName(collectionId, tabId) up to its await
SaveTabNameBegin ==
  /\ ~isLoading /\ Len(pendingCalls) < MaxPendingRenames
  /\ \E i \in DOMAIN Visible : \E j \in DOMAIN Visible[i].tabs :
       /\ editingTabId = Visible[i].tabs[j].id
       /\ IF Trim(editingName) # <<>>
          THEN /\ pendingCalls' =
                    Append(pendingCalls,
                           PendingRename("saveTabName", Visible[i].tabs[j].id,
                                         Trim(editingName)))
               /\ UNCHANGED editingTabId
          ELSE /\ editingTabId' = Null
               /\ UNCHANGED pendingCalls
  /\ lastHandler' = Ran("saveTabName", NoUrl)
  /\ lastCalls' = <<>>
  /\ alerts' = 0
  /\ UNCHANGED <<storeVars, rootFolderId, mirrorVars, isLoading, showOpenTabs,
                 showGroups, watchQueued, pendingMove, mountStep,
                 editingGroupId, editingCollectionId, editingName, dragVars>>

\* the item p renamed to name in the mirror's lists
Renamed(gs, p, name) ==
  [i \in DOMAIN gs |->
     IF p.handler = "saveTabName"
     THEN [gs[i] EXCEPT !.tabs =
             [j \in DOMAIN gs[i].tabs |->
                IF gs[i].tabs[j].id = p.id
                THEN [gs[i].tabs[j] EXCEPT !.title = name]
                ELSE gs[i].tabs[j]]]
     ELSE IF gs[i].id = p.id THEN [gs[i] EXCEPT !.name = name] ELSE gs[i]]

\* the rest of the k-th waiting rename commit, its update settled with ok:
\* the name is read from editingName again, the editing id is cleared
SaveNameResumeOf(k, ok) ==
  LET p == pendingCalls[k]
      op == IF p.handler = "saveGroupName" THEN "updateGroup"
            ELSE IF p.handler = "saveCollectionName" THEN "updateCollection"
            ELSE "bookmarks.update"
  IN  /\ p.handler \in RenameHandlers
      /\ pendingCalls' = SpliceOut(pendingCalls, k - 1)
      /\ lastHandler' = Ran(p.handler, NoUrl)
      /\ IF ok /\ BmExists(tree, p.id)
         THEN /\ tree' = BmUpdate(tree, p.id, p.title)
              /\ groups' = IF p.handler = "saveGroupName"
                           THEN Renamed(groups, p, Trim(editingName))
                           ELSE groups
              /\ collections' = IF p.handler = "saveGroupName"
                                THEN collections
                                ELSE Renamed(collections, p, Trim(editingName))
              /\ lastCalls' = <<Call(op, p.id, Null, -1, p.title, TRUE)>>
         ELSE /\ lastCalls' = <<Call(op, p.id, Null, -1, p.title, FALSE)>>
              /\ UNCHANGED <<tree, groups, collections>>
      /\ editingGroupId' =
           IF p.handler = "saveGroupName" THEN Null ELSE editingGroupId
      /\ editingCollectionId' =
           IF p.handler = "saveCollectionName" THEN Null ELSE editingCollectionId
      /\ editingTabId' =
           IF p.handler = "saveTabName" THEN Null ELSE editingTabId
      /\ alerts' = 0
      /\ UNCHANGED <<nextId, uiStates, sidebarState, rootFolderId,
                     selectedGroupId, isLoading, showOpenTabs, showGroups,
                     watchQueued, pendingMove, mountStep, editingName, dragVars>>

SaveNameResume ==
  \E k \in DOMAIN pendingCalls : \E ok \in BOOLEAN : SaveNameResumeOf(k, ok)

\* the stores a first session leaves that created two groups (4, 5), a
\* collection (6) in the first and a tab (7) in it
SeedRenameTree ==
  (OtherBookmarksId :> <<Node(3, ROOT_FOLDER_NAME, NoUrl)>>)
  @@ (3 :> <<Node(4, <<"a">>, NoUrl), Node(5, <<"a">>, NoUrl)>>)
  @@ (4 :> <<Node(6, <<"a">>, NoUrl)>>)
  @@ (5 :> <<>>)
  @@ (6 :> <<Node(7, <<"a">>, <<"https://", "a">>)>>)

InitRename ==
  /\ tree = SeedRenameTree
  /\ nextId = 8
  /\ uiStates = NoUIStates
  /\ sidebarState = NoState
  /\ Constructed

\* the user types " b" into the edit box
RenameTyping == OnEditInput /\ editingName' = <<" ", "b">>

NextRename ==
  \/ OnMounted
  \/ StartEditGroup
  \/ StartEditCollection
  \/ StartEditTab
  \/ RenameTyping
  \/ SaveGroupNameBegin
  \/ SaveCollectionNameBegin
  \/ SaveTabNameBegin
  \/ SaveNameResume

SpecRename == InitRename /\ [][NextRename]_vars

----------------------------------------------------------------------------
(* C32 *)

\* the name the lists gs (groups) and cs (collections) hold for the item of
\* the rename commit p
MirrorName(gs, cs, p) ==
  IF p.handler = "saveGroupName"
  THEN LET i == CHOOSE i \in DOMAIN gs : gs[i].id = p.id IN gs[i].name
  ELSE IF p.handler = "saveCollectionName"
  THEN LET i == CHOOSE i \in DOMAIN cs : cs[i].id = p.id IN cs[i].name
  ELSE LET i == CHOOSE i \in DOMAIN cs : Some(cs[i].tabs, LAMBDA t : t.id = p.id)
           j == CHOOSE j \in DOMAIN cs[i].tabs : cs[i].tabs[j].id = p.id
       IN  cs[i].tabs[j].title

\* the editing id the rename commit p clears
EditingIdOf(p, g, c, t) ==
  IF p.handler = "saveGroupName" THEN g
  ELSE IF p.handler = "saveCollectionName" THEN c ELSE t

\* C32 as claimed: when a rename commit resumes after its update resolved,
\* the item's name in the mirror is the title that was sent, and an editing
\* id that names another item (an edit started while the update was pending)
\* is left as it is.
C32_RenameCommitsSentTitle ==
  [][\A k \in DOMAIN pendingCalls :
       (SaveNameResumeOf(k, TRUE) /\ lastCalls'[1].ok)
       => LET p == pendingCalls[k]
              editing == EditingIdOf(p, editingGroupId, editingCollectionId,
                                     editingTabId)
          IN  /\ MirrorName(groups', collections', p) = p.title
              /\ editing \notin {Null, p.id}
                   => EditingIdOf(p, editingGroupId', editingCollectionId',
                                  editingTabId') = editing]_vars


----------------------------------------------------------------------------
(* SpecOverlap: the adds of open tabs with their await.  The open-tab      *)
(* branch of onTabDrop and of onDropToCollection looks for the url in the  *)
(* collection, calls addTabToCollection and waits; saveCurrentTabs takes   *)
(* existingUrls once and waits at each create.  Other handlers run while a *)
(* create is pending, and the waiting handler then adds the new tab to the *)
(* collection.                                                             *)

MaxPendingAdds == 2   \* handlers that may wait at an addTabToCollection at once

\* a handler waiting at await addTabToCollection(cid, tab): where a drop
\* will put the tab, and for saveCurrentTabs the urls it took as existing
\* and the window's tabs from the one being created on
PendingAdd(handler, cid, tab, targetIndex, existingUrls, rest) ==
  [handler |-> handler, id |-> cid, tab |-> tab, targetIndex |-> targetIndex,
   existingUrls |-> existingUrls, rest |-> rest]

AddHandlers == {"onTabDrop", "onDropToCollection", "saveCurrentTabs"}

\* the open-tab branch of onTabDrop (targetIndex: where the hovered tab is)
\* and of onDropToCollection (targetIndex -1) up to the await; without a
\* create the branch runs to its end and clears its markers
DropAddBegin(handler, cid, targetIndex) ==
  LET tab == draggedOpenTab
  IN  /\ ~isLoading /\ Len(pendingCalls) < MaxPendingAdds
      /\ draggedOpenTab # None
      /\ HasCollection(cid)
      /\ lastHandler' = Ran(handler, tab.url)
      /\ IF tab.url # NoUrl /\ IsValidTabUrl(tab.url) /\ ~HasUrl(TabsOf(cid), tab.url)
         THEN /\ pendingCalls' =
                   Append(pendingCalls,
                          PendingAdd(handler, cid, tab, targetIndex, {}, <<>>))
              /\ UNCHANGED <<draggedOpenTab, dragOverTabId, dragOverCollectionId>>
         ELSE /\ draggedOpenTab' = None
              /\ dragOverTabId' =
                   IF handler = "onTabDrop" THEN Null ELSE dragOverTabId
              /\ dragOverCollectionId' =
                   IF handler = "onTabDrop" THEN dragOverCollectionId ELSE Null
              /\ UNCHANGED pendingCalls
      /\ lastCalls' = <<>>
      /\ alerts' = 0
      /\ UNCHANGED <<storeVars, rootFolderId, mirrorVars, isLoading,
                     showOpenTabs, showGroups, watchQueued, pendingMove,
                     mountStep, editVars, draggedTab, draggedCollection,
                     dragOverCollectionForSort, draggedGroup, dragOverGroupId>>

TabDropAddBegin ==
  \E i \in DOMAIN Visible : \E j \in DOMAIN Visible[i].tabs :
    DropAddBegin("onTabDrop", Visible[i].id,
                 FindIndex(Visible[i].tabs,
                           LAMBDA t : t.id = Visible[i].tabs[j].id))

DropToCollectionAddBegin ==
  /\ draggedCollection = Null
  /\ \E i \in DOMAIN Visible : DropAddBegin("onDropToCollection", Visible[i].id, -1)

\* the tabs of the window saveCurrentTabs still creates: those from the
\* first valid one on whose url is not among existingUrls
RECURSIVE ToCreate(_, _)
ToCreate(windowTabs, existingUrls) ==
  IF windowTabs = <<>> THEN <<>>
  ELSE IF /\ IsValidTabUrl(Head(windowTabs).url)
          /\ Head(windowTabs).url \notin existingUrls
  THEN windowTabs
  ELSE ToCreate(Tail(windowTabs), existingUrls)

\* saveCurrentTabs(collectionId), tabs.query giving windowTabs, up to the
\* await of its first create
SaveCurrentTabsBegin(cid, windowTabs) ==
  LET tabs == TabsOf(cid)
      existingUrls == {tabs[k].url : k \in DOMAIN tabs}
      rest == ToCreate(windowTabs, existingUrls)
  IN  /\ ~isLoading /\ Len(pendingCalls) < MaxPendingAdds
      /\ HasCollection(cid)
      /\ lastHandler' = Ran("saveCurrentTabs", NoUrl)
      /\ pendingCalls' =
           IF rest = <<>> THEN pendingCalls
           ELSE Append(pendingCalls,
                       PendingAdd("saveCurrentTabs", cid, Head(rest), -1,
                                  existingUrls, rest))
      /\ lastCalls' = <<>>
      /\ alerts' = 0
      /\ UNCHANGED <<storeVars, rootFolderId, mirrorVars, isLoading,
                     showOpenTabs, showGroups, watchQueued, pendingMove,
                     mountStep, editVars, dragVars>>

\* the k-th waiting add resumes, its create settled with ok: the new tab is
\* put into the collection; a drop then clears its markers, saveCurrentTabs
\* goes on to its next create
AddResumeOf(k, ok) ==
  LET p == pendingCalls[k]
      cid == p.id
      title == IF p.handler = "saveCurrentTabs"
               THEN OrElse(p.tab.title, <<"Untitled">>)
               ELSE OrElse(p.tab.title, p.tab.url)
      newTab == Tab(nextId, title, p.tab.url)
      tabs == TabsOf(cid)
      rest == IF p.handler = "saveCurrentTabs"
              THEN ToCreate(Tail(p.rest), p.existingUrls) ELSE <<>>
  IN  /\ p.handler \in AddHandlers
      /\ HasCollection(cid)
      /\ lastHandler' = Ran(p.handler, p.tab.url)
      /\ IF CanAdd(ok, cid, TabsBudget)
         THEN /\ tree' = BmCreate(tree, nextId, cid, title, p.tab.url)
              /\ nextId' = nextId + 1
              /\ collections' =
                   WithTabs(collections, cid,
                            IF p.targetIndex > -1
                            THEN SpliceIn(tabs, p.targetIndex, newTab)
                            ELSE Append(tabs, newTab))
              /\ lastCalls' = <<Call("addTabToCollection", Null, cid, -1, title, TRUE)>>
         ELSE /\ lastCalls' = <<Call("addTabToCollection", Null, cid, -1, title, FALSE)>>
              /\ UNCHANGED <<tree, nextId, collections>>
      /\ pendingCalls' =
           IF rest = <<>> THEN SpliceOut(pendingCalls, k - 1)
           ELSE [pendingCalls EXCEPT ![k] = [p EXCEPT !.tab = Head(rest),
                                                      !.rest = rest]]
      /\ draggedOpenTab' =
           IF p.handler = "saveCurrentTabs" THEN draggedOpenTab ELSE None
      /\ dragOverTabId' =
           IF p.handler = "onTabDrop" THEN Null ELSE dragOverTabId
      /\ dragOverCollectionId' =
           IF p.handler = "onDropToCollection" THEN Null ELSE dragOverCollectionId
      /\ alerts' = 0
      /\ UNCHANGED <<uiStates, sidebarState, rootFolderId, groups,
                     selectedGroupId, isLoading, showOpenTabs, showGroups,
                     watchQueued, pendingMove, mountStep, editVars, draggedTab,
                     draggedCollection, dragOverCollectionForSort, draggedGroup,
                     dragOverGroupId>>

AddResume ==
  \E k \in DOMAIN pendingCalls : \E ok \in BOOLEAN : AddResumeOf(k, ok)

\* what tabs.query gives in SpecOverlap: windows whose tabs are on
\* different pages
OverlapWindows ==
  { <<OpenTab(<<"https://", "a">>)>>,
    <<OpenTab(<<"chrome://", "x">>), OpenTab(<<"https://", "b">>),
      OpenTab(<<"https://", "a">>)>> }

SaveTabsBegin ==
  \E i \in DOMAIN Visible : \E windowTabs \in OverlapWindows :
    SaveCurrentTabsBegin(Visible[i].id, windowTabs)

NextOverlap ==
  \/ OnMounted
  \/ OnDragStartOpenTab
  \/ TabDropAddBegin
  \/ DropToCollectionAddBegin
  \/ SaveTabsBegin
  \/ AddResume
  \/ OnDragEnd

SpecOverlap == InitTabs /\ [][NextOverlap]_vars

----------------------------------------------------------------------------
(* C33 *)

\* no collection of the mirror holds two tabs with one url
UrlsUnique ==
  \A i \in DOMAIN collections :
    \A j, k \in DOMAIN collections[i].tabs :
      collections[i].tabs[j].url = collections[i].tabs[k].url => j = k

\* C33 as claimed: with the adds of open tabs overlapping (a second add of a
\* url starting while the create of a first is pending), once no create is
\* pending every collection holds at most one tab with any url.
C33_OverlappingAddsKeepUrlsUnique == pendingCalls = <<>> => UrlsUnique


----------------------------------------------------------------------------
(* SpecWriters: the writers of the UI-state store with their awaits.       *)
(* updateCollectionUIState, removeCollectionUIState and saveCollectionOrder *)
(* each await loadCollectionUIStates, change the object loaded and await   *)
(* saveCollectionUIStates with it; the handlers that call them             *)
(* (toggleCollectionExpand, deleteCollection, onCollectionDrop) wait for   *)
(* them, and other handlers run while a load or a save is pending.  Local  *)
(* storage is available.                                                   *)

MaxPendingWriters == 2   \* handlers that may wait in a UI-state writer at once

\* a handler waiting in its writer: at the load (states: not yet loaded) or
\* at the save of states
PendingWrite(handler, id, state, phase, states) ==
  [handler |-> handler, id |-> id, state |-> state, phase |-> phase,
   states |-> states]

WriterHandlers == {"toggleCollectionExpand", "deleteCollection", "onCollectionDrop"}

\* toggleCollectionExpand(collection) up to the load of updateCollectionUIState
ToggleCollectionExpandBegin ==
  /\ ~isLoading /\ Len(pendingCalls) < MaxPendingWriters
  /\ lastHandler' = Ran("toggleCollectionExpand", NoUrl)
  /\ \E i \in DOMAIN Visible :
       LET c == Visible[i]
       IN  /\ collections' =
                [k \in DOMAIN collections |->
                   IF collections[k].id = c.id
                   THEN [collections[k] EXCEPT !.expanded = ~c.expanded]
                   ELSE collections[k]]
           /\ pendingCalls' =
                Append(pendingCalls,
                       PendingWrite("toggleCollectionExpand", c.id,
                                    [expanded |-> ~c.expanded], "load", NoUIStates))
  /\ lastCalls' = <<>>
  /\ alerts' = 0
  /\ UNCHANGED <<storeVars, rootFolderId, groups, selectedGroupId, isLoading,
                 showOpenTabs, showGroups, watchQueued, pendingMove, mountStep,
                 editVars, dragVars>>

\* deleteCollection(id), confirmed: the folder removed (or the removal
\* rejected: alert), up to the load of removeCollectionUIState
DeleteCollectionBegin ==
  /\ ~isLoading /\ Len(pendingCalls) < MaxPendingWriters
  /\ lastHandler' = Ran("deleteCollection", NoUrl)
  /\ \E i \in DOMAIN Visible : \E ok \in BOOLEAN :
       LET id == Visible[i].id
       IN  IF ok /\ BmExists(tree, id)
           THEN /\ tree' = BmRemoveTree(tree, id)
                /\ pendingCalls' =
                     Append(pendingCalls,
                            PendingWrite("deleteCollection", id, <<>>, "load",
                                         NoUIStates))
                /\ lastCalls' = <<Call("deleteCollection", id, Null, -1, <<>>, TRUE)>>
                /\ alerts' = 0
           ELSE /\ lastCalls' = <<Call("deleteCollection", id, Null, -1, <<>>, FALSE)>>
                /\ alerts' = 1
                /\ UNCHANGED <<tree, pendingCalls>>
  /\ UNCHANGED <<nextId, uiStates, sidebarState, rootFolderId, mirrorVars,
                 isLoading, showOpenTabs, showGroups, watchQueued, pendingMove,
                 mountStep, editVars, dragVars>>

\* onCollectionDrop(targetCollectionId) up to the load of saveCollectionOrder;
\* without a reorder the handler runs to its end and clears its markers
CollectionDropBegin ==
  /\ ~isLoading /\ Len(pendingCalls) < MaxPendingWriters
  /\ lastHandler' = Ran("onCollectionDrop", NoUrl)
  /\ draggedCollection # Null
  /\ \E i \in DOMAIN Visible :
       LET targetCollectionId == Visible[i].id
           sourceIndex == FindIndex(collections, LAMBDA c : c.id = draggedCollection)
           targetIndex == FindIndex(collections, LAMBDA c : c.id = targetCollectionId)
       IN  IF /\ draggedCollection # targetCollectionId
              /\ sourceIndex > -1 /\ targetIndex > -1
           THEN /\ collections' = MoveTo(collections, sourceIndex, targetIndex)
                /\ pendingCalls' =
                     Append(pendingCalls,
                            PendingWrite("onCollectionDrop", draggedCollection,
                                         <<>>, "load", NoUIStates))
                /\ UNCHANGED <<draggedCollection, dragOverCollectionForSort>>
           ELSE /\ draggedCollection' = Null
                /\ dragOverCollectionForSort' = Null
                /\ UNCHANGED <<collections, pendingCalls>>
  /\ lastCalls' = <<>>
  /\ alerts' = 0
  /\ UNCHANGED <<storeVars, rootFolderId, groups, selectedGroupId, isLoading,
                 showOpenTabs, showGroups, watchQueued, pendingMove, mountStep,
                 editVars, draggedTab, draggedOpenTab, dragOverCollectionId,
                 dragOverTabId, draggedGroup, dragOverGroupId>>

\* the load of the k-th waiting writer resolves: the writer changes the
\* object it was given and calls saveCollectionUIStates with it
WriterLoad ==
  \E k \in DOMAIN pendingCalls :
    LET p == pendingCalls[k]
        states == IF p.handler = "toggleCollectionExpand"
                  THEN UpdateCollectionUIState(uiStates, p.id, p.state)
                  ELSE IF p.handler = "deleteCollection"
                  THEN RemoveCollectionUIState(uiStates, p.id)
                  ELSE SaveCollectionOrder(uiStates, collections)
    IN  /\ p.handler \in WriterHandlers /\ p.phase = "load"
        /\ pendingCalls' =
             [pendingCalls EXCEPT ![k] = [p EXCEPT !.phase = "save",
                                                   !.states = states]]
        /\ lastHandler' = Ran(p.handler, NoUrl)
        /\ lastCalls' = <<>>
        /\ alerts' = 0
        /\ UNCHANGED <<storeVars, rootFolderId, mirrorVars, isLoading,
                       showOpenTabs, showGroups, watchQueued, pendingMove,
                       mountStep, editVars, dragVars>>

\* the save of the k-th waiting writer resolves and its handler runs to its
\* end: deleteCollection takes the collection out of the mirror,
\* onCollectionDrop clears its markers
WriterSave ==
  \E k \in DOMAIN pendingCalls :
    LET p == pendingCalls[k]
        op == IF p.handler = "toggleCollectionExpand" THEN "updateCollectionUIState"
              ELSE IF p.handler = "deleteCollection" THEN "removeCollectionUIState"
              ELSE "saveCollectionOrder"
    IN  /\ p.handler \in WriterHandlers /\ p.phase = "save"
        /\ uiStates' = p.states
        /\ pendingCalls' = SpliceOut(pendingCalls, k - 1)
        /\ collections' =
             IF p.handler = "deleteCollection"
             THEN SelectSeq(collections, LAMBDA c : c.id # p.id)
             ELSE collections
        /\ draggedCollection' =
             IF p.handler = "onCollectionDrop" THEN Null ELSE draggedCollection
        /\ dragOverCollectionForSort' =
             IF p.handler = "onCollectionDrop" THEN Null
             ELSE dragOverCollectionForSort
        /\ lastHandler' = Ran(p.handler, NoUrl)
        /\ lastCalls' = <<Call(op, p.id, Null, -1, <<>>, TRUE)>>
        /\ alerts' = 0
        /\ UNCHANGED <<tree, nextId, sidebarState, rootFolderId, groups,
                       selectedGroupId, isLoading, showOpenTabs, showGroups,
                       watchQueued, pendingMove, mountStep, editVars, draggedTab,
                       draggedOpenTab, dragOverCollectionId, dragOverTabId,
                       draggedGroup, dragOverGroupId>>

NextWriters ==
  \/ OnMounted
  \/ ToggleCollectionExpandBegin
  \/ DeleteCollectionBegin
  \/ OnCollectionDragStart
  \/ CollectionDropBegin
  \/ WriterLoad
  \/ WriterSave

SpecWriters == InitTabs /\ [][NextWriters]_vars

----------------------------------------------------------------------------
(* C34 *)

\* the store holds what the handlers that ran wrote: for each collection of
\* the mirror the expanded flag the mirror shows (none stored: not
\* expanded), and no record of a collection that was deleted
StoreReflectsMirror ==
  /\ \A i \in DOMAIN collections :
       collections[i].expanded =
         (IF collections[i].id \in DOMAIN uiStates
          THEN uiStates[collections[i].id].expanded ELSE FALSE)
  /\ DOMAIN uiStates \subseteq CollectionIds

\* C34 as claimed: with the loads and saves of the UI-state writers
\* interleaved, once no writer is pending the store reflects every update:
\* no toggle and no removal is lost.
C34_NoUIStateUpdateLost ==
  (~isLoading /\ pendingCalls = <<>>) => StoreReflectsMirror


----------------------------------------------------------------------------
(* C35 *)

\* the k-th waiting handler is a collection drop whose save resolves in
\* this step
CollectionDropResumes(k) ==
  /\ pendingCalls[k].handler = "onCollectionDrop"
  /\ pendingCalls[k].phase = "save"
  /\ lastHandler'.name = "onCollectionDrop"
  /\ pendingCalls' = SpliceOut(pendingCalls, k - 1)

\* C35 as claimed: a drop handler that resumes after its awaited call leaves
\* the marker of a drag started while the call was pending: when
\* onCollectionDrop resumes and draggedCollection names another collection
\* than the one it dropped, draggedCollection stays set.
C35_ResumedDropKeepsNewDrag ==
  [][\A k \in DOMAIN pendingCalls :
       (CollectionDropResumes(k)
        /\ draggedCollection \notin {Null, pendingCalls[k].id})
       => draggedCollection' = draggedCollection]_vars


----------------------------------------------------------------------------
(* C36 *)

\* the ids of the folders, and of the bookmarks, directly under folder id
FolderIdsUnder(t, id) ==
  IF id \in DOMAIN t THEN {n.id : n \in {m \in Range(t[id]) : IsFolder(m)}} ELSE {}

BookmarkIdsUnder(t, id) ==
  IF id \in DOMAIN t THEN {n.id : n \in {m \in Range(t[id]) : ~IsFolder(m)}} ELSE {}

\* the mirror and the bookmark tree agree on hierarchy
MirrorAgreesWithTree ==
  /\ GroupIds = (IF rootFolderId # Null THEN FolderIdsUnder(tree, rootFolderId) ELSE {})
  /\ \A i \in DOMAIN collections :
       /\ collections[i].id \in FolderIdsUnder(tree, collections[i].groupId)
       /\ Range(Ids(collections[i].tabs)) = BookmarkIdsUnder(tree, collections[i].id)

\* C36 as claimed: whenever no handler is in flight (the handlers of this
\* specification run to their end in one step) and the page has started,
\* the mirror's groups are the folders under the root, each collection of
\* the mirror is a folder under the folder of its groupId, and its tabs are
\* the bookmarks under its folder, whether the adapter calls resolved or
\* rejected.
C36_MirrorAgreesWithTree == ~isLoading => MirrorAgreesWithTree


----------------------------------------------------------------------------
(* C37 *)

\* C37 as claimed: once startup has finished, on its success path or on its
\* failure path, selectedGroupId is empty or the id of a group of the
\* mirror's group list, and it is empty only when the list is empty;
\* selecting a group, createGroup and deleteGroup keep it so.
C37_SelectedGroupIsListed ==
  ~isLoading =>
    /\ selectedGroupId = Null \/ selectedGroupId \in GroupIds
    /\ selectedGroupId = Null => groups = <<>>


====
